---- MODULE Spec2Model ----
(***************************************************************************)
(* The chain store of pkg/chain/store.go: the head pointer and its        *)
(* persisted slot, SetHead, the reorg worker, the head-change pub/sub      *)
(* topic and the SubHeadChanges forwarding goroutine.                      *)
(***************************************************************************)
EXTENDS Integers, Sequences, FiniteSets, TLC

\* ------------------------------------------------------------------ bounds
\* Total number of SetHead calls explored.
MaxCalls == 3
\* Number of callbacks registered through SubscribeHeadChanges.
MaxRegs == 1
\* Total number of calls of the operations other than SetHead.
MaxOps == 3

\* ------------------------------------------------------- program constants
ReorgChCap == 32
OutCap == 16
PubSubCap == 64

HeadKey == "/chain/heaviestTipSet"
CheckPoint == "/chain/checkPoint"
HeadChangeTopic == "headchange"
HCRevert == "revert"
HCApply == "apply"
HCCurrent == "current"
ErrNotifeeDone == "notifee is done and should be removed"

\* ------------------------------------------------------------ block store
\* The tipsets the block store holds.  "nil" is the nil *block.TipSet.
Nil == "nil"
\* block.UndefTipSet: a tipset that is not nil and has no blocks.
UndefTipSet == "undef"
TipSets == {"G", "A", "B", "C", "B2", "D", "E", "F", "Z"}

\* The CIDs of a tipset's blocks.
Blocks(t) ==
  CASE t = "G" -> {1}
    [] t = "A" -> {12, 11}
    [] t = "B" -> {21}
    [] t = "C" -> {31, 32}
    [] t = "B2" -> {22}
    [] t = "D" -> {41}
    [] t = "E" -> {51}
    [] t = "F" -> {61, 62}
    [] t = "Z" -> {2}
    [] OTHER -> {}

\* Height of a tipset (epoch).  D sits above a null round at height 3, E above
\* null rounds at heights 5 to 13.
Height(t) ==
  CASE t = "G" -> 0
    [] t = "A" -> 1
    [] t = "B" -> 2
    [] t = "C" -> 3
    [] t = "B2" -> 2
    [] t = "D" -> 4
    [] t = "E" -> 14
    [] t = "F" -> 15
    [] t = "Z" -> 0
    [] OTHER -> 0 - 1

\* The parent tipset; Nil for a genesis tipset.  Z is the genesis of another chain.
Parents(t) ==
  CASE t = "A" -> "G"
    [] t = "B" -> "A"
    [] t = "C" -> "B"
    [] t = "B2" -> "A"
    [] t = "D" -> "B2"
    [] t = "E" -> "D"
    [] t = "F" -> "E"
    [] OTHER -> Nil

RECURSIVE Ancestors(_)
\* A tipset and all its ancestors.
Ancestors(t) == IF t = Nil THEN {} ELSE {t} \cup Ancestors(Parents(t))

\* The state root and the receipts root of a tipset, as its child blocks record
\* them (ParentStateRoot, ParentMessageReceipts).
StateRootOf(t) == 100 + Height(t)
ReceiptsOf(t) == 200 + Height(t)

RECURSIVE SortedSeq(_)
\* The canonical (ascending) sequence of a set of CIDs.
SortedSeq(S) ==
  IF S = {} THEN <<>>
  ELSE LET m == CHOOSE x \in S : \A y \in S : x <= y
       IN <<m>> \o SortedSeq(S \ {m})

\* TipSet.Defined(): the tipset is not nil and has blocks.
Defined(t) == t # Nil /\ Blocks(t) # {}

\* TipSet.Key(): the sorted CIDs; the nil tipset and the undefined tipset have
\* the empty key.
Key(t) == IF t = Nil THEN <<>> ELSE SortedSeq(Blocks(t))

\* TipSet.Equals: equality of keys.
Equals(a, b) == Key(a) = Key(b)

\* encoding.Encode of a TipSetKey: an array header holding the length, then the CIDs.
Encode(k) == <<Len(k)>> \o k

\* The value ds.Get reports as not found.
NoVal == <<>>

\* encoding.Decode into a TipSetKey; fails on a value that is no such array.
DecodeOk(v) == Len(v) >= 1 /\ v[1] = Len(v) - 1
Decode(v) == [i \in 1 .. (Len(v) - 1) |-> v[i + 1]]

Reverse(s) == [i \in 1 .. Len(s) |-> s[Len(s) + 1 - i]]

\* ------------------------------------------------------------------- state
Callers == {"c1", "c2"}
Subs == {"s1"}
Callbacks == {"f1"}
NoOne == "-"
HC == "headChangeNotifee"

VARIABLES
  head,       \* store.head
  ds,         \* store.ds: key -> value
  mu,         \* store.mu: the caller holding the write lock, or NoOne
  notifees,   \* store.notifees
  reorgCh,    \* store.reorgCh (the worker's out)
  pc, arg, dropped, added, cseq, calls, lastRet,   \* SetHead callers
  wpc, wr, wi, wNotifees, toremove,       \* reorgWorker goroutine and its locals
  cmdChan, psSubs, psPend, psMsg, psState,   \* store.headEvents
  fpc, subCh, subClosed, fval, ctxDone, unsub, out, outClosed,   \* SubHeadChanges
  commits, enqLog, published, invoked, regAt, wInit, sent, recvd, snapSeq, stopped,  \* history
  tipIndex,   \* store.tipIndex: tipset -> (stateRoot, receiptsRoot), NoMeta when not indexed
  checkPoint, \* store.checkPoint
  bs,         \* the tipsets whose blocks the block store holds
  ops, opRet, \* calls of the other operations, and what the last one returned
  mpc, marg,  \* PutTipSetMetadata, DelTipSetMetadata, Import: position and locals per goroutine
  opAt,       \* history: the TipIndex and the datastore when the goroutine's call began
  lpc, lhead, lcur, lback,   \* Load: its position, headTs, the iterator and loopBack
  lkey, lmeta \* Load: headTsKey and the metadata read for the iterator's tipset

storeVars == <<head, ds, mu, notifees, reorgCh>>
callerVars == <<pc, arg, dropped, added, cseq, calls, lastRet>>
workerVars == <<wpc, wr, wi, wNotifees, toremove>>
psVars == <<cmdChan, psSubs, psPend, psMsg, psState>>
subVars == <<fpc, subCh, subClosed, fval, ctxDone, unsub, out, outClosed>>
histVars == <<commits, enqLog, published, invoked, regAt, wInit, sent, recvd, snapSeq, stopped>>
callVars == <<mpc, marg, opAt>>
metaVars == <<tipIndex, checkPoint, bs, ops, opRet, callVars>>
loadVars == <<lpc, lhead, lcur, lback, lkey, lmeta>>
vars == <<storeVars, callerVars, workerVars, psVars, subVars, histVars, metaVars, loadVars>>

\* ------------------------------------------------------- reorg computation
RECURSIVE walkToCommon_lowerSide(_, _, _, _)
\* The walk advancing the lower side instead of the higher one.
walkToCommon_lowerSide(a, b, rev, app) ==
  IF ~Defined(a) \/ ~Defined(b) THEN [err |-> TRUE, old |-> <<>>, new |-> <<>>]
  ELSE IF Equals(a, b) THEN [err |-> FALSE, old |-> rev, new |-> app]
  ELSE IF Height(a) < Height(b) THEN walkToCommon_lowerSide(Parents(a), b, Append(rev, a), app)
  ELSE IF Height(a) > Height(b) THEN walkToCommon_lowerSide(a, Parents(b), rev, Append(app, b))
  ELSE walkToCommon_lowerSide(Parents(a), Parents(b), Append(rev, a), Append(app, b))

RECURSIVE walkToCommon(_, _, _, _)
\* The walk of CollectTipsToCommonAncestor: advance the higher side, both on a
\* tie, until both sides hold the same key; the lists are in walk order
\* (newest first).  A side that runs past its genesis ends the walk in error.
walkToCommon(a, b, rev, app) ==
  IF ~Defined(a) \/ ~Defined(b) THEN [err |-> TRUE, old |-> <<>>, new |-> <<>>]
  ELSE IF Equals(a, b) THEN [err |-> FALSE, old |-> rev, new |-> app]
  ELSE IF Height(a) > Height(b) THEN walkToCommon(Parents(a), b, Append(rev, a), app)
  ELSE IF Height(a) < Height(b) THEN walkToCommon(a, Parents(b), rev, Append(app, b))
  ELSE walkToCommon(Parents(a), Parents(b), Append(rev, a), Append(app, b))

CollectTipsToCommonAncestor(oldHead, newHead) == walkToCommon(oldHead, newHead, <<>>, <<>>)

\* ------------------------------------------------------------ store helpers
\* writeHead putting the key under another datastore key.
writeHead_otherKey(d, cids) == [d EXCEPT ![CheckPoint] = Encode(cids)]

\* writeHead: ds.Put(HeadKey, Encode(cids)).
writeHead(d, cids) == [d EXCEPT ![HeadKey] = Encode(cids)]

\* GetHead: the key of the head, the empty key while the head is not defined.
GetHead == IF ~Defined(head) THEN <<>> ELSE Key(head)

\* SetHead without the test for an unchanged head.
sameHead_never(h, newTs) == FALSE

\* SetHead's test for a call that changes nothing.
sameHead(h, newTs) == h # Nil /\ Equals(h, newTs)

\* headChangeNotifee filling the batch with the applies first.
headChangeNotifee_appliesFirst(rev, app) ==
  [i \in 1 .. (Len(rev) + Len(app)) |->
     IF i <= Len(app) THEN [Type |-> HCApply, Val |-> app[i]]
     ELSE [Type |-> HCRevert, Val |-> rev[i - Len(app)]]]

\* headChangeNotifee: the batch published for a reorg, reverts then applies.
headChangeNotifee(rev, app) ==
  [i \in 1 .. (Len(rev) + Len(app)) |->
     IF i <= Len(rev) THEN [Type |-> HCRevert, Val |-> rev[i]]
     ELSE [Type |-> HCApply, Val |-> app[i - Len(rev)]]]

\* A batch in flight: the notification and the number of the commit it is for
\* (0 for the snapshot batch of SubHeadChanges).
Batch(n, hcs) == [seq |-> n, notif |-> hcs]
NoBatch == Batch(0, <<>>)
NoReorg == [old |-> <<>>, new |-> <<>>, seq |-> 0]
Cmd(o, c, m) == [op |-> o, ch |-> c, msg |-> m]

\* What the last SetHead call to return gave: its caller, its tipset, nil or an error.
Returned(p, t, r) == [p |-> p, ts |-> t, res |-> r]

\* The datastore key of a tipset's metadata, and all the keys of the datastore.
MetaKey(t) == t
DsKeys == {HeadKey, CheckPoint} \cup {MetaKey(t) : t \in TipSets}

\* cid.Undef, and the CID of the genesis block handed to NewStore.
Undef == 0
GenesisCid == 1

\* A tipset the TipIndex does not hold.
NoMeta == <<>>
\* No operation has returned yet.
NoRet == [op |-> "none"]

\* The goroutines that call PutTipSetMetadata, DelTipSetMetadata and Import.
MetaThreads == {"m1", "m2"}
\* The goroutine has no call under way.
NoCall == [op |-> "none"]

\* -------------------------------------------------------------------- Init
\* NewStore's checkpoint: the key decoded from the checkpoint slot, genesis when
\* the slot is absent.
NewCheckPoint(d) ==
  IF d[CheckPoint] = NoVal THEN <<GenesisCid>>
  ELSE IF DecodeOk(d[CheckPoint]) THEN Decode(d[CheckPoint]) ELSE <<>>

\* NewStore over the datastore (already in ds) and the block store b: an empty
\* TipIndex, the checkpoint read from the datastore, Load not called.
InitMeta(b) ==
  /\ tipIndex = [t \in TipSets |-> NoMeta]
  /\ checkPoint = NewCheckPoint(ds)
  /\ bs = b
  /\ ops = 0
  /\ opRet = NoRet
  /\ mpc = [m \in MetaThreads |-> "idle"]
  /\ marg = [m \in MetaThreads |-> NoCall]
  /\ opAt = [m \in MetaThreads |-> NoCall]
  /\ lpc = "idle"
  /\ lhead = Nil
  /\ lcur = Nil
  /\ lback = 0
  /\ lkey = <<>>
  /\ lmeta = NoVal

\* The store after NewStore over the datastore d and the block store b, the
\* worker holding the notifee list l.
InitStore(l, d, b) ==
  /\ head = Nil
  /\ ds = d
  /\ mu = NoOne
  /\ notifees = <<>>
  /\ reorgCh = <<>>
  /\ InitMeta(b)
  /\ pc = [p \in Callers |-> "idle"]
  /\ arg = [p \in Callers |-> Nil]
  /\ dropped = [p \in Callers |-> <<>>]
  /\ added = [p \in Callers |-> <<>>]
  /\ cseq = [p \in Callers |-> 0]
  /\ calls = 0
  /\ lastRet = Returned(NoOne, Nil, "none")
  /\ wpc = "recv"
  /\ wr = NoReorg
  /\ wi = 0
  /\ wNotifees = l
  /\ toremove = {}
  /\ cmdChan = <<>>
  /\ psSubs = {}
  /\ psPend = {}
  /\ psMsg = NoBatch
  /\ psState = "run"
  /\ fpc = [s \in Subs |-> "none"]
  /\ subCh = [s \in Subs |-> <<>>]
  /\ subClosed = [s \in Subs |-> FALSE]
  /\ fval = [s \in Subs |-> NoBatch]
  /\ ctxDone = [s \in Subs |-> FALSE]
  /\ unsub = [s \in Subs |-> "no"]
  /\ out = [s \in Subs |-> <<>>]
  /\ outClosed = [s \in Subs |-> FALSE]
  /\ commits = <<>>
  /\ enqLog = <<>>
  /\ published = <<>>
  /\ invoked = <<>>
  /\ regAt = <<>>
  /\ wInit = l
  /\ sent = [s \in Subs |-> <<>>]
  /\ recvd = [s \in Subs |-> <<>>]
  /\ snapSeq = [s \in Subs |-> 0]
  /\ stopped = FALSE

\* The store after NewStore on an empty datastore with every block at hand.
EmptyDs == [k \in DsKeys |-> NoVal]
InitWith(l) == InitStore(l, EmptyDs, TipSets)

\* reorgWorker starts with headChangeNotifee alone.
Init == InitWith(<<HC>>)

\* ----------------------------------------------------------------- SetHead
\* SetHead up to the head write: take the lock, return at once when the head
\* already is newTs or when no common ancestor is found, else hold the lists.
SetHeadBegin(p, newTs) ==
  /\ pc[p] = "idle"
  /\ mu = NoOne
  /\ calls < MaxCalls
  /\ calls' = calls + 1
  /\ LET r == IF head = Nil
              THEN [err |-> FALSE, old |-> <<>>, new |-> <<newTs>>]
              ELSE CollectTipsToCommonAncestor(head, newTs)
     IN IF sameHead(head, newTs)
        THEN /\ lastRet' = Returned(p, newTs, "nil")
             /\ UNCHANGED <<pc, mu, arg, dropped, added>>
        ELSE IF r.err
        THEN /\ lastRet' = Returned(p, newTs, "error")
             /\ UNCHANGED <<pc, mu, arg, dropped, added>>
        ELSE /\ pc' = [pc EXCEPT ![p] = "write"]
             /\ mu' = p
             /\ arg' = [arg EXCEPT ![p] = newTs]
             /\ dropped' = [dropped EXCEPT ![p] = r.old]
             /\ added' = [added EXCEPT ![p] = r.new]
             /\ UNCHANGED lastRet
  /\ UNCHANGED <<head, ds, notifees, reorgCh, cseq>>
  /\ UNCHANGED <<workerVars, psVars, subVars, histVars>>
  /\ UNCHANGED metaVars

\* A SetHead call made through the store's interface.
SetHeadEnter(p, newTs) == SetHeadBegin(p, newTs) /\ UNCHANGED loadVars

\* The head write with store.head assigned before the datastore is written.
SetHeadWrite_headFirst(p) ==
  /\ pc[p] = "write"
  /\ head' = arg[p]
  /\ \E putOk \in BOOLEAN :
       IF putOk
       THEN /\ ds' = writeHead(ds, Key(arg[p]))
            /\ pc' = [pc EXCEPT ![p] = "commit"]
            /\ UNCHANGED <<mu, arg, dropped, added, lastRet>>
       ELSE /\ pc' = [pc EXCEPT ![p] = "idle"]
            /\ mu' = NoOne
            /\ lastRet' = Returned(p, arg[p], "error")
            /\ arg' = [arg EXCEPT ![p] = Nil]
            /\ dropped' = [dropped EXCEPT ![p] = <<>>]
            /\ added' = [added EXCEPT ![p] = <<>>]
            /\ UNCHANGED ds
  /\ UNCHANGED <<notifees, reorgCh, cseq, calls>>
  /\ UNCHANGED <<workerVars, psVars, subVars, histVars>>
  /\ UNCHANGED <<metaVars, loadVars>>

\* The head write going on to the commit without writing the datastore.
SetHeadWrite_noPut(p) ==
  /\ pc[p] = "write"
  /\ pc' = [pc EXCEPT ![p] = "commit"]
  /\ UNCHANGED <<head, ds, mu, notifees, reorgCh, arg, dropped, added, cseq, calls, lastRet>>
  /\ UNCHANGED <<workerVars, psVars, subVars, histVars>>
  /\ UNCHANGED <<metaVars, loadVars>>

\* The head write going on to the commit when ds.Put has failed.
SetHeadWrite_putErrorIgnored(p) ==
  /\ pc[p] = "write"
  /\ \E putOk \in BOOLEAN : ds' = IF putOk THEN writeHead(ds, Key(arg[p])) ELSE ds
  /\ pc' = [pc EXCEPT ![p] = "commit"]
  /\ UNCHANGED <<head, mu, notifees, reorgCh, arg, dropped, added, cseq, calls, lastRet>>
  /\ UNCHANGED <<workerVars, psVars, subVars, histVars>>
  /\ UNCHANGED <<metaVars, loadVars>>

\* The head write under the lock: ds.Put either stores the new key or fails,
\* and a failure returns the error with the lock released.
SetHeadWrite(p) ==
  /\ pc[p] = "write"
  /\ \E putOk \in BOOLEAN :
       IF putOk
       THEN /\ ds' = writeHead(ds, Key(arg[p]))
            /\ pc' = [pc EXCEPT ![p] = "commit"]
            /\ UNCHANGED <<mu, arg, dropped, added, lastRet>>
       ELSE /\ pc' = [pc EXCEPT ![p] = "idle"]
            /\ mu' = NoOne
            /\ lastRet' = Returned(p, arg[p], "error")
            /\ arg' = [arg EXCEPT ![p] = Nil]
            /\ dropped' = [dropped EXCEPT ![p] = <<>>]
            /\ added' = [added EXCEPT ![p] = <<>>]
            /\ UNCHANGED ds
  /\ UNCHANGED <<head, notifees, reorgCh, cseq, calls>>
  /\ UNCHANGED <<workerVars, psVars, subVars, histVars>>
  /\ UNCHANGED <<metaVars, loadVars>>

\* newTs.Height() returns an error for the undefined tipset only.
heightFails(t) == t = UndefTipSet

\* The head commit that leaves both lists in walk order.
SetHeadCommit_noReverse(p) ==
  /\ pc[p] = "commit"
  /\ head' = arg[p]
  /\ mu' = NoOne
  /\ IF heightFails(arg[p])
     THEN /\ pc' = [pc EXCEPT ![p] = "idle"]
          /\ lastRet' = Returned(p, arg[p], "error")
          /\ arg' = [arg EXCEPT ![p] = Nil]
          /\ dropped' = [dropped EXCEPT ![p] = <<>>]
          /\ added' = [added EXCEPT ![p] = <<>>]
          /\ UNCHANGED <<commits, cseq>>
     ELSE /\ pc' = [pc EXCEPT ![p] = "send"]
          /\ UNCHANGED <<dropped, added>>
          /\ commits' = Append(commits, [ts |-> arg[p], slot |-> ds[HeadKey]])
          /\ cseq' = [cseq EXCEPT ![p] = Len(commits) + 1]
          /\ UNCHANGED <<arg, lastRet>>
  /\ UNCHANGED <<ds, notifees, reorgCh, calls>>
  /\ UNCHANGED <<workerVars, psVars, subVars>>
  /\ UNCHANGED <<enqLog, published, invoked, regAt, wInit, sent, recvd, snapSeq, stopped>>
  /\ UNCHANGED <<metaVars, loadVars>>

\* The head commit that keeps the lock for the send.
SetHeadCommit_keepsLock(p) ==
  /\ pc[p] = "commit"
  /\ head' = arg[p]
  /\ mu' = mu
  /\ IF heightFails(arg[p])
     THEN /\ pc' = [pc EXCEPT ![p] = "idle"]
          /\ lastRet' = Returned(p, arg[p], "error")
          /\ arg' = [arg EXCEPT ![p] = Nil]
          /\ dropped' = [dropped EXCEPT ![p] = <<>>]
          /\ added' = [added EXCEPT ![p] = <<>>]
          /\ UNCHANGED <<commits, cseq>>
     ELSE /\ pc' = [pc EXCEPT ![p] = "send"]
          /\ dropped' = [dropped EXCEPT ![p] = Reverse(@)]
          /\ added' = [added EXCEPT ![p] = Reverse(@)]
          /\ commits' = Append(commits, [ts |-> arg[p], slot |-> ds[HeadKey]])
          /\ cseq' = [cseq EXCEPT ![p] = Len(commits) + 1]
          /\ UNCHANGED <<arg, lastRet>>
  /\ UNCHANGED <<ds, notifees, reorgCh, calls>>
  /\ UNCHANGED <<workerVars, psVars, subVars>>
  /\ UNCHANGED <<enqLog, published, invoked, regAt, wInit, sent, recvd, snapSeq, stopped>>
  /\ UNCHANGED <<metaVars, loadVars>>

\* store.head = newTs and the lock released; then newTs.Height(), whose error
\* is returned with the head and its slot already changed and nothing sent;
\* else both lists are reversed for the send.  commits records the heads a
\* batch is owed for.
SetHeadCommit(p) ==
  /\ pc[p] = "commit"
  /\ head' = arg[p]
  /\ mu' = NoOne
  /\ IF heightFails(arg[p])
     THEN /\ pc' = [pc EXCEPT ![p] = "idle"]
          /\ lastRet' = Returned(p, arg[p], "error")
          /\ arg' = [arg EXCEPT ![p] = Nil]
          /\ dropped' = [dropped EXCEPT ![p] = <<>>]
          /\ added' = [added EXCEPT ![p] = <<>>]
          /\ UNCHANGED <<commits, cseq>>
     ELSE /\ pc' = [pc EXCEPT ![p] = "send"]
          /\ dropped' = [dropped EXCEPT ![p] = Reverse(@)]
          /\ added' = [added EXCEPT ![p] = Reverse(@)]
          /\ commits' = Append(commits, [ts |-> arg[p], slot |-> ds[HeadKey]])
          /\ cseq' = [cseq EXCEPT ![p] = Len(commits) + 1]
          /\ UNCHANGED <<arg, lastRet>>
  /\ UNCHANGED <<ds, notifees, reorgCh, calls>>
  /\ UNCHANGED <<workerVars, psVars, subVars>>
  /\ UNCHANGED <<enqLog, published, invoked, regAt, wInit, sent, recvd, snapSeq, stopped>>
  /\ UNCHANGED <<metaVars, loadVars>>

\* store.reorgCh <- reorg{old: dropped, new: added}, then return nil.
SetHeadSend(p) ==
  /\ pc[p] = "send"
  /\ Len(reorgCh) < ReorgChCap
  /\ reorgCh' = Append(reorgCh, [old |-> dropped[p], new |-> added[p], seq |-> cseq[p]])
  /\ enqLog' = Append(enqLog, cseq[p])
  /\ pc' = [pc EXCEPT ![p] = "idle"]
  /\ lastRet' = Returned(p, arg[p], "nil")
  /\ arg' = [arg EXCEPT ![p] = Nil]
  /\ dropped' = [dropped EXCEPT ![p] = <<>>]
  /\ added' = [added EXCEPT ![p] = <<>>]
  /\ cseq' = [cseq EXCEPT ![p] = 0]
  /\ UNCHANGED <<head, ds, mu, notifees, calls>>
  /\ UNCHANGED <<workerVars, psVars, subVars>>
  /\ UNCHANGED <<commits, published, invoked, regAt, wInit, sent, recvd, snapSeq, stopped>>
  /\ UNCHANGED <<metaVars, loadVars>>

\* ------------------------------------------------------------- reorgWorker
\* The error a notifee returns.  headChangeNotifee publishes and returns nil; a
\* callback returns what it likes.
NotifeeResults == {"nil", ErrNotifeeDone, "error"}

\* keepNotifees that leaves the list as it is.
keepNotifees_all(ns, rm) == ns

\* The notifees kept after a reorg: those whose index is not in rm, in their order.
keepNotifees(ns, rm) ==
  LET idx == {i \in 1 .. Len(ns) : i \notin rm}
      nth(k) == CHOOSE i \in idx : Cardinality({j \in idx : j < i}) = k - 1
  IN [k \in 1 .. Cardinality(idx) |-> ns[nth(k)]]

\* case r := <-out
WorkerRecv ==
  /\ wpc = "recv"
  /\ reorgCh # <<>>
  /\ wr' = Head(reorgCh)
  /\ reorgCh' = Tail(reorgCh)
  /\ wi' = 1
  /\ toremove' = {}
  /\ wpc' = "call"
  /\ UNCHANGED <<head, ds, mu, notifees, wNotifees>>
  /\ UNCHANGED <<callerVars, psVars, subVars, histVars>>
  /\ UNCHANGED <<metaVars, loadVars>>

\* err := hcf(r.old, r.new) for the next notifee of the list and, after the
\* last one, the removal of the notifees that returned ErrNotifeeDone.
WorkerCall ==
  /\ wpc = "call"
  /\ wi <= Len(wNotifees)
  /\ \E e \in NotifeeResults :
       LET hc == wNotifees[wi] = HC
           rm == IF e = ErrNotifeeDone THEN toremove \cup {wi} ELSE toremove
       IN /\ hc => (e = "nil" /\ Len(cmdChan) < PubSubCap)
          /\ cmdChan' = IF hc
                        THEN Append(cmdChan, Cmd("pub", NoOne,
                                 Batch(wr.seq, headChangeNotifee(wr.old, wr.new))))
                        ELSE cmdChan
          /\ invoked' = IF hc THEN invoked
                        ELSE Append(invoked, [f |-> wNotifees[wi], seq |-> wr.seq,
                                              rev |-> wr.old, app |-> wr.new, res |-> e])
          /\ IF wi < Len(wNotifees)
             THEN /\ wi' = wi + 1
                  /\ toremove' = rm
                  /\ UNCHANGED <<wpc, wr, wNotifees>>
             ELSE /\ wNotifees' = IF rm # {} THEN keepNotifees(wNotifees, rm) ELSE wNotifees
                  /\ wpc' = "recv"
                  /\ wr' = NoReorg
                  /\ wi' = 0
                  /\ toremove' = {}
  /\ UNCHANGED <<psSubs, psPend, psMsg, psState>>
  /\ UNCHANGED <<storeVars, callerVars, subVars>>
  /\ UNCHANGED <<commits, enqLog, published, regAt, wInit, sent, recvd, snapSeq, stopped>>
  /\ UNCHANGED <<metaVars, loadVars>>

\* SubscribeHeadChanges: store.notifees = append(store.notifees, f).
SubscribeHeadChanges(f) ==
  /\ Len(notifees) < MaxRegs
  /\ notifees' = Append(notifees, f)
  /\ regAt' = Append(regAt, Len(enqLog))
  /\ UNCHANGED <<head, ds, mu, reorgCh>>
  /\ UNCHANGED <<callerVars, workerVars, psVars, subVars>>
  /\ UNCHANGED <<commits, enqLog, published, invoked, wInit, sent, recvd, snapSeq, stopped>>
  /\ UNCHANGED <<metaVars, loadVars>>

\* ------------------------------------------------------ headEvents (pubsub)
\* The pubsub goroutine takes the next command: sub registers the channel, pub
\* starts a send to every registered channel, unsub removes and closes the
\* channel, shutdown closes every registered channel and ends the goroutine.
PsStep ==
  /\ psState = "run"
  /\ psPend = {}
  /\ cmdChan # <<>>
  /\ LET c == Head(cmdChan)
     IN /\ cmdChan' = Tail(cmdChan)
        /\ psSubs' = CASE c.op = "sub" -> psSubs \cup {c.ch}
                       [] c.op = "unsub" -> psSubs \ {c.ch}
                       [] c.op = "shutdown" -> {}
                       [] OTHER -> psSubs
        /\ psPend' = IF c.op = "pub" THEN psSubs ELSE {}
        /\ psMsg' = IF c.op = "pub" /\ psSubs # {} THEN c.msg ELSE NoBatch
        /\ psState' = IF c.op = "shutdown" THEN "closed" ELSE "run"
        /\ subClosed' = [s \in Subs |->
                           \/ subClosed[s]
                           \/ (c.op = "unsub" /\ s = c.ch /\ s \in psSubs)
                           \/ (c.op = "shutdown" /\ s \in psSubs)]
        /\ published' = IF c.op = "pub" THEN Append(published, c.msg.seq) ELSE published
  /\ UNCHANGED <<fpc, subCh, fval, ctxDone, unsub, out, outClosed>>
  /\ UNCHANGED <<storeVars, callerVars, workerVars>>
  /\ UNCHANGED <<commits, enqLog, invoked, regAt, wInit, sent, recvd, snapSeq, stopped>>
  /\ UNCHANGED <<metaVars, loadVars>>

\* ch <- msg for one of the channels the message is still owed to.
PsSend(s) ==
  /\ s \in psPend
  /\ Len(subCh[s]) < PubSubCap
  /\ subCh' = [subCh EXCEPT ![s] = Append(@, psMsg)]
  /\ psPend' = psPend \ {s}
  /\ psMsg' = IF psPend = {s} THEN NoBatch ELSE psMsg
  /\ UNCHANGED <<cmdChan, psSubs, psState>>
  /\ UNCHANGED <<fpc, subClosed, fval, ctxDone, unsub, out, outClosed>>
  /\ UNCHANGED <<storeVars, callerVars, workerVars, histVars>>
  /\ UNCHANGED <<metaVars, loadVars>>

\* Stop: headEvents.Shutdown().
Stop ==
  /\ ~stopped
  /\ Len(cmdChan) < PubSubCap
  /\ cmdChan' = Append(cmdChan, Cmd("shutdown", NoOne, NoBatch))
  /\ stopped' = TRUE
  /\ UNCHANGED <<psSubs, psPend, psMsg, psState>>
  /\ UNCHANGED <<storeVars, callerVars, workerVars, subVars>>
  /\ UNCHANGED <<commits, enqLog, published, invoked, regAt, wInit, sent, recvd, snapSeq>>
  /\ UNCHANGED <<metaVars, loadVars>>

\* ---------------------------------------------------------- SubHeadChanges
\* The snapshot batch [{current, head}].
CurrentBatch(h) == Batch(0, <<[Type |-> HCCurrent, Val |-> h]>>)

\* out := make(chan, 16); head read under the read lock; out <- [{current, head}].
SubHeadChangesSnapshot(s) ==
  /\ fpc[s] = "none"
  /\ mu = NoOne
  /\ out' = [out EXCEPT ![s] = <<CurrentBatch(head)>>]
  /\ sent' = [sent EXCEPT ![s] = <<CurrentBatch(head)>>]
  /\ snapSeq' = [snapSeq EXCEPT ![s] = Len(commits)]
  /\ fpc' = [fpc EXCEPT ![s] = "snap"]
  /\ UNCHANGED <<subCh, subClosed, fval, ctxDone, unsub, outClosed>>
  /\ UNCHANGED <<storeVars, callerVars, workerVars, psVars>>
  /\ UNCHANGED <<commits, enqLog, published, invoked, regAt, wInit, recvd, stopped>>
  /\ UNCHANGED <<metaVars, loadVars>>

\* subCh := headEvents.Sub(HeadChangeTopic); the forwarding goroutine starts.
SubHeadChangesSub(s) ==
  /\ fpc[s] = "snap"
  /\ Len(cmdChan) < PubSubCap
  /\ cmdChan' = Append(cmdChan, Cmd("sub", s, NoBatch))
  /\ fpc' = [fpc EXCEPT ![s] = "loop"]
  /\ UNCHANGED <<psSubs, psPend, psMsg, psState>>
  /\ UNCHANGED <<subCh, subClosed, fval, ctxDone, unsub, out, outClosed>>
  /\ UNCHANGED <<storeVars, callerVars, workerVars, histVars>>
  /\ UNCHANGED <<metaVars, loadVars>>

\* case val, ok := <-subCh with ok: hold val for the inner select.
FwdRecv(s) ==
  /\ fpc[s] = "loop"
  /\ subCh[s] # <<>>
  /\ fval' = [fval EXCEPT ![s] = Head(subCh[s])]
  /\ subCh' = [subCh EXCEPT ![s] = Tail(@)]
  /\ recvd' = [recvd EXCEPT ![s] = Append(@, Head(subCh[s]))]
  /\ fpc' = [fpc EXCEPT ![s] = "hold"]
  /\ UNCHANGED <<subClosed, ctxDone, unsub, out, outClosed>>
  /\ UNCHANGED <<storeVars, callerVars, workerVars, psVars>>
  /\ UNCHANGED <<commits, enqLog, published, invoked, regAt, wInit, sent, snapSeq, stopped>>
  /\ UNCHANGED <<metaVars, loadVars>>

\* The forwarding goroutine returning without closing the output channel.
FwdExit_noClose(s) ==
  /\ fpc[s] = "loop"
  /\ subCh[s] = <<>>
  /\ subClosed[s]
  /\ fpc' = [fpc EXCEPT ![s] = "exit"]
  /\ UNCHANGED <<subCh, subClosed, fval, ctxDone, unsub, out, outClosed>>
  /\ UNCHANGED <<storeVars, callerVars, workerVars, psVars, histVars>>
  /\ UNCHANGED <<metaVars, loadVars>>

\* case val, ok := <-subCh with !ok: return, and the deferred close(out).
FwdExit(s) ==
  /\ fpc[s] = "loop"
  /\ subCh[s] = <<>>
  /\ subClosed[s]
  /\ fpc' = [fpc EXCEPT ![s] = "exit"]
  /\ outClosed' = [outClosed EXCEPT ![s] = TRUE]
  /\ UNCHANGED <<subCh, subClosed, fval, ctxDone, unsub, out>>
  /\ UNCHANGED <<storeVars, callerVars, workerVars, psVars, histVars>>
  /\ UNCHANGED <<metaVars, loadVars>>

\* inner select, case out <- val.
FwdSend(s) ==
  /\ fpc[s] = "hold"
  /\ Len(out[s]) < OutCap
  /\ out' = [out EXCEPT ![s] = Append(@, fval[s])]
  /\ sent' = [sent EXCEPT ![s] = Append(@, fval[s])]
  /\ fval' = [fval EXCEPT ![s] = NoBatch]
  /\ fpc' = [fpc EXCEPT ![s] = "loop"]
  /\ UNCHANGED <<subCh, subClosed, ctxDone, unsub, outClosed>>
  /\ UNCHANGED <<storeVars, callerVars, workerVars, psVars>>
  /\ UNCHANGED <<commits, enqLog, published, invoked, regAt, wInit, recvd, snapSeq, stopped>>
  /\ UNCHANGED <<metaVars, loadVars>>

\* FwdDrop that also gives up on val when the output channel has no room.
FwdDrop_whenFull(s) ==
  /\ fpc[s] = "hold"
  /\ ctxDone[s] \/ Len(out[s]) >= OutCap
  /\ fval' = [fval EXCEPT ![s] = NoBatch]
  /\ fpc' = [fpc EXCEPT ![s] = "loop"]
  /\ UNCHANGED <<subCh, subClosed, ctxDone, unsub, out, outClosed>>
  /\ UNCHANGED <<storeVars, callerVars, workerVars, psVars, histVars>>
  /\ UNCHANGED <<metaVars, loadVars>>

\* inner select, case <-ctx.Done(): val is not forwarded.
FwdDrop(s) ==
  /\ fpc[s] = "hold"
  /\ ctxDone[s]
  /\ fval' = [fval EXCEPT ![s] = NoBatch]
  /\ fpc' = [fpc EXCEPT ![s] = "loop"]
  /\ UNCHANGED <<subCh, subClosed, ctxDone, unsub, out, outClosed>>
  /\ UNCHANGED <<storeVars, callerVars, workerVars, psVars, histVars>>
  /\ UNCHANGED <<metaVars, loadVars>>

\* outer select, case <-ctx.Done(): unsubOnce starts the Unsub goroutine.
FwdCtxDone(s) ==
  /\ fpc[s] = "loop"
  /\ ctxDone[s]
  /\ unsub[s] = "no"
  /\ unsub' = [unsub EXCEPT ![s] = "spawned"]
  /\ UNCHANGED <<fpc, subCh, subClosed, fval, ctxDone, out, outClosed>>
  /\ UNCHANGED <<storeVars, callerVars, workerVars, psVars, histVars>>
  /\ UNCHANGED <<metaVars, loadVars>>

\* go store.headEvents.Unsub(subCh)
UnsubSend(s) ==
  /\ unsub[s] = "spawned"
  /\ Len(cmdChan) < PubSubCap
  /\ cmdChan' = Append(cmdChan, Cmd("unsub", s, NoBatch))
  /\ unsub' = [unsub EXCEPT ![s] = "sent"]
  /\ UNCHANGED <<psSubs, psPend, psMsg, psState>>
  /\ UNCHANGED <<fpc, subCh, subClosed, fval, ctxDone, out, outClosed>>
  /\ UNCHANGED <<storeVars, callerVars, workerVars, histVars>>
  /\ UNCHANGED <<metaVars, loadVars>>

\* The subscriber's context is cancelled.
CtxCancel(s) ==
  /\ fpc[s] # "none"
  /\ ~ctxDone[s]
  /\ ctxDone' = [ctxDone EXCEPT ![s] = TRUE]
  /\ UNCHANGED <<fpc, subCh, subClosed, fval, unsub, out, outClosed>>
  /\ UNCHANGED <<storeVars, callerVars, workerVars, psVars, histVars>>
  /\ UNCHANGED <<metaVars, loadVars>>

\* The subscriber reads the next batch from the returned channel.
Consume(s) ==
  /\ out[s] # <<>>
  /\ out' = [out EXCEPT ![s] = Tail(@)]
  /\ UNCHANGED <<fpc, subCh, subClosed, fval, ctxDone, unsub, outClosed>>
  /\ UNCHANGED <<storeVars, callerVars, workerVars, psVars, histVars>>
  /\ UNCHANGED <<metaVars, loadVars>>

\* ------------------------------------------------------- tipset metadata
\* encoding.Encode of a tsState: an array header, the state root, the receipts.
EncodeMeta(sr, rc) == <<2, sr, rc>>
DecodeMetaOk(v) == Len(v) = 3 /\ v[1] = 2

\* TipIndex.Put: the entry of the tipset is set, whatever it holds.
tipIndexPut(ti, t, sr, rc) == [ti EXCEPT ![t] = <<sr, rc>>]
\* TipIndex.Del: the entry of the tipset is removed.
tipIndexDel(ti, t) == [ti EXCEPT ![t] = NoMeta]
\* TipIndex.Has
tipIndexHas(ti, t) == ti[t] # NoMeta

\* writeTipSetMetadata: refuses an undefined state root or receipts root, then
\* ds.Put stores the pair under the tipset's key or fails.
writeTipSetMetadataOk(sr, rc, putOk) == sr # Undef /\ rc # Undef /\ putOk
writeTipSetMetadata(d, t, sr, rc) == [d EXCEPT ![MetaKey(t)] = EncodeMeta(sr, rc)]

\* The result an operation other than SetHead returns.
OpRet(o, t, r) == [op |-> o, ts |-> t, res |-> r]

\* The call of the goroutine m returns r.
metaReturns(m, r) ==
  /\ mpc' = [mpc EXCEPT ![m] = "idle"]
  /\ marg' = [marg EXCEPT ![m] = NoCall]
  /\ opAt' = [opAt EXCEPT ![m] = NoCall]
  /\ opRet' = r

\* PutTipSetMetadata, first half: store.tipIndex.Put(tsm).  No lock of the
\* store is held: other goroutines run before the datastore is written.
PutTipSetMetadata(m, t, sr, rc) ==
  /\ mpc[m] = "idle"
  /\ ops < MaxOps
  /\ ops' = ops + 1
  /\ tipIndex' = tipIndexPut(tipIndex, t, sr, rc)
  /\ mpc' = [mpc EXCEPT ![m] = "write"]
  /\ marg' = [marg EXCEPT ![m] = [op |-> "put", t |-> t, sr |-> sr, rc |-> rc]]
  /\ opAt' = [opAt EXCEPT ![m] = [ti |-> tipIndex, ds |-> ds]]
  /\ UNCHANGED <<head, ds, mu, notifees, reorgCh, checkPoint, bs, opRet>>
  /\ UNCHANGED <<callerVars, workerVars, psVars, subVars, histVars, loadVars>>

\* PutTipSetMetadata, second half: writeTipSetMetadata, and the return.
PutTipSetMetadataWrite(m) ==
  /\ mpc[m] = "write"
  /\ LET a == marg[m]
     IN \E putOk \in BOOLEAN :
          IF writeTipSetMetadataOk(a.sr, a.rc, putOk)
          THEN /\ ds' = writeTipSetMetadata(ds, a.t, a.sr, a.rc)
               /\ metaReturns(m, OpRet("put", a.t, "nil"))
          ELSE /\ ds' = ds
               /\ metaReturns(m, OpRet("put", a.t, "error"))
  /\ UNCHANGED <<head, mu, notifees, reorgCh, tipIndex, checkPoint, bs, ops>>
  /\ UNCHANGED <<callerVars, workerVars, psVars, subVars, histVars, loadVars>>

\* DelTipSetMetadata, first half: store.tipIndex.Del(ts).
DelTipSetMetadata(m, t) ==
  /\ mpc[m] = "idle"
  /\ ops < MaxOps
  /\ ops' = ops + 1
  /\ tipIndex' = tipIndexDel(tipIndex, t)
  /\ mpc' = [mpc EXCEPT ![m] = "delete"]
  /\ marg' = [marg EXCEPT ![m] = [op |-> "del", t |-> t]]
  /\ opAt' = [opAt EXCEPT ![m] = [ti |-> tipIndex, ds |-> ds]]
  /\ UNCHANGED <<head, ds, mu, notifees, reorgCh, checkPoint, bs, opRet>>
  /\ UNCHANGED <<callerVars, workerVars, psVars, subVars, histVars, loadVars>>

\* DelTipSetMetadata, second half: deleteTipSetMetadata (ds.Delete), and the
\* return.
DelTipSetMetadataDelete(m) ==
  /\ mpc[m] = "delete"
  /\ LET a == marg[m]
     IN \E delOk \in BOOLEAN :
          IF delOk
          THEN /\ ds' = [ds EXCEPT ![MetaKey(a.t)] = NoVal]
               /\ metaReturns(m, OpRet("del", a.t, "nil"))
          ELSE /\ ds' = ds
               /\ metaReturns(m, OpRet("del", a.t, "error"))
  /\ UNCHANGED <<head, mu, notifees, reorgCh, tipIndex, checkPoint, bs, ops>>
  /\ UNCHANGED <<callerVars, workerVars, psVars, subVars, histVars, loadVars>>

\* -------------------------------------------------------------------- Load
\* The thread that calls Load (and, through it, SetHead).
LoadThread == "c2"
\* loopBack = checkPointTs.EnsureHeight() - 10
LoadBack == 10

\* LoadTipSetBlocks / GetTipSet: the tipset of a key, Nil when the key is empty,
\* names no tipset or a block of it is not in the block store.
TipSetOfKey(k, b) ==
  IF \E t \in b : Key(t) = k THEN CHOOSE t \in b : Key(t) = k ELSE Nil

\* Load failing: the error is returned.
loadFails(t) ==
  /\ lpc' = "failed"
  /\ opRet' = OpRet("load", t, "error")

\* Load begins: store.tipIndex = NewTipIndex().  Load holds no lock of the
\* store; each of its steps holds one access to the TipIndex, the datastore
\* or the store's fields, a read of the block store, which only grows, being
\* taken together with the step after it.
LoadStart ==
  /\ lpc = "idle"
  /\ ops < MaxOps
  /\ ops' = ops + 1
  /\ tipIndex' = [t \in TipSets |-> NoMeta]
  /\ lpc' = "head"
  /\ UNCHANGED <<checkPoint, bs, opRet, callVars, lhead, lcur, lback, lkey, lmeta>>
  /\ UNCHANGED <<storeVars, callerVars, workerVars, psVars, subVars, histVars>>

\* headTsKey, err := store.loadHead(): the head slot is read and decoded.
LoadHead ==
  /\ lpc = "head"
  /\ LET v == ds[HeadKey]
     IN IF v # NoVal /\ DecodeOk(v)
        THEN /\ lkey' = Decode(v)
             /\ lpc' = "blocks"
             /\ UNCHANGED opRet
        ELSE /\ loadFails(Nil)
             /\ UNCHANGED lkey
  /\ UNCHANGED <<tipIndex, checkPoint, bs, ops, callVars, lhead, lcur, lback, lmeta>>
  /\ UNCHANGED <<storeVars, callerVars, workerVars, psVars, subVars, histVars>>

\* The head tipset is loaded from the block store; then store.checkPoint is
\* tested: loopBack stays 0 when it is empty.
LoadBlocks ==
  /\ lpc = "blocks"
  /\ LET headTs == TipSetOfKey(lkey, bs)
     IN IF headTs = Nil
        THEN /\ loadFails(Nil)
             /\ UNCHANGED <<lhead, lcur, lback>>
        ELSE /\ lhead' = headTs
             /\ lcur' = headTs
             /\ lback' = 0
             /\ lpc' = IF checkPoint # <<>> THEN "checkpoint" ELSE "walk"
             /\ UNCHANGED opRet
  /\ UNCHANGED <<tipIndex, checkPoint, bs, ops, callVars, lkey, lmeta>>
  /\ UNCHANGED <<storeVars, callerVars, workerVars, psVars, subVars, histVars>>

\* The checkpoint tipset is loaded from the key the store holds now;
\* loopBack = checkPointTs.EnsureHeight() - 10.
LoadCheckPoint ==
  /\ lpc = "checkpoint"
  /\ LET cpTs == TipSetOfKey(checkPoint, bs)
     IN IF cpTs = Nil
        THEN /\ loadFails(Nil)
             /\ UNCHANGED lback
        ELSE /\ lback' = Height(cpTs) - LoadBack
             /\ lpc' = "walk"
             /\ UNCHANGED opRet
  /\ UNCHANGED <<tipIndex, checkPoint, bs, ops, callVars, lhead, lcur, lkey, lmeta>>
  /\ UNCHANGED <<storeVars, callerVars, workerVars, psVars, subVars, histVars>>

\* TipsetIterator.Next: the iterator takes the tipset of the parents' key as
\* GetTipSet returns it from the block store, the undefined tipset when the
\* key is empty or a block of it is missing; Complete is then true.
iteratorNext(t, b) ==
  IF Parents(t) = Nil \/ Parents(t) \notin b THEN Nil ELSE Parents(t)

\* if startPoint.EnsureHeight() <= loopBack { break }
loadStops(h, back) == h <= back

\* The head of a round of the traversal.  After a round the iterator moves
\* to the parents (the post statement), and the loop ends when it is
\* complete: at the end of the chain and equally when the parents cannot be
\* loaded, the error of Next being tested only at the head of a further
\* round.  Then loadStateRootAndReceipts reads the metadata of the
\* iterator's tipset from the datastore.
LoadWalk ==
  /\ lpc \in {"walk", "next"}
  /\ LET cur == IF lpc = "walk" THEN lcur ELSE iteratorNext(lcur, bs)
         v == IF cur = Nil THEN NoVal ELSE ds[MetaKey(cur)]
     IN IF cur = Nil
        THEN /\ lpc' = "sethead"
             /\ UNCHANGED <<lcur, lmeta, opRet>>
        ELSE IF v = NoVal \/ ~DecodeMetaOk(v)
        THEN /\ loadFails(cur)
             /\ lcur' = cur
             /\ UNCHANGED lmeta
        ELSE /\ lpc' = "index"
             /\ lcur' = cur
             /\ lmeta' = v
             /\ UNCHANGED opRet
  /\ UNCHANGED <<tipIndex, checkPoint, bs, ops, callVars, lhead, lback, lkey>>
  /\ UNCHANGED <<storeVars, callerVars, workerVars, psVars, subVars, histVars>>

\* The round's PutTipSetMetadata, first half: store.tipIndex.Put.
LoadIndex ==
  /\ lpc = "index"
  /\ tipIndex' = tipIndexPut(tipIndex, lcur, lmeta[2], lmeta[3])
  /\ lpc' = "write"
  /\ UNCHANGED <<checkPoint, bs, ops, opRet, callVars, lhead, lcur, lback, lkey, lmeta>>
  /\ UNCHANGED <<storeVars, callerVars, workerVars, psVars, subVars, histVars>>

\* The round's PutTipSetMetadata, second half: writeTipSetMetadata; then the
\* loop ends at a tipset not above loopBack (break).
LoadWrite ==
  /\ lpc = "write"
  /\ \E putOk \in BOOLEAN :
       IF writeTipSetMetadataOk(lmeta[2], lmeta[3], putOk)
       THEN /\ ds' = writeTipSetMetadata(ds, lcur, lmeta[2], lmeta[3])
            /\ lpc' = IF loadStops(Height(lcur), lback) THEN "sethead" ELSE "next"
            /\ UNCHANGED opRet
       ELSE /\ ds' = ds
            /\ loadFails(lcur)
  /\ UNCHANGED <<head, mu, notifees, reorgCh>>
  /\ UNCHANGED <<tipIndex, checkPoint, bs, ops, callVars, lhead, lcur, lback, lkey, lmeta>>
  /\ UNCHANGED <<callerVars, workerVars, psVars, subVars, histVars>>

\* return store.SetHead(ctx, headTs)
LoadSetHead ==
  /\ lpc = "sethead"
  /\ SetHeadBegin(LoadThread, lhead)
  /\ lpc' = "called"
  /\ UNCHANGED <<lhead, lcur, lback, lkey, lmeta>>

\* ------------------------------------------------------- GetTipSetByHeight
RECURSIVE walkBack(_, _, _)
\* walkBack: from from down to the tipset at height to, or, when to falls
\* between two tipsets, the upper one; Nil for an error.
walkBack(from, to, b) ==
  IF to > Height(from) THEN Nil
  ELSE IF to = Height(from) THEN from
  ELSE LET pts == TipSetOfKey(Key(Parents(from)), b)
       IN IF pts = Nil THEN Nil
          ELSE IF to > Height(pts) THEN from
          ELSE IF to = Height(pts) THEN pts
          ELSE walkBack(pts, to, b)

\* chainIndex.GetTipSetByHeight: the answer of the linear walk, or, from its
\* cache, an ancestor below the height asked for.
chainIndexAnswers(ts, h, b) ==
  {walkBack(ts, h, b)} \cup {a \in Ancestors(ts) \cap b : Height(a) < h}
\* chainIndex.GetTipsetByHeightWithoutCache: the linear walk.
chainIndexWithoutCache(ts, h, b) == walkBack(ts, h, b)

\* GetTipSetByHeight taking the chain index's answer as it comes.
getTipSetByHeight_noFallback(hd, b, ts0, h, prev, cached) ==
  LET ts == IF ts0 = Nil THEN hd ELSE ts0
      par == IF cached = Nil THEN Nil ELSE TipSetOfKey(Key(Parents(cached)), b)
  IN IF ts = Nil THEN [res |-> "panic", ts |-> Nil]
     ELSE IF h > Height(ts) THEN [res |-> "error", ts |-> Nil]
     ELSE IF h = Height(ts) THEN [res |-> "nil", ts |-> ts]
     ELSE IF cached = Nil THEN [res |-> "error", ts |-> Nil]
     ELSE IF Height(cached) = h \/ ~prev THEN [res |-> "nil", ts |-> cached]
     ELSE IF par = Nil THEN [res |-> "error", ts |-> Nil]
     ELSE [res |-> "nil", ts |-> par]

\* GetTipSetByHeight with the head hd, the block store b and the chain
\* index's answer cached: the tipset returned, or the error.
getTipSetByHeight(hd, b, ts0, h, prev, cached) ==
  LET ts == IF ts0 = Nil THEN hd ELSE ts0
      lbts == IF cached # Nil /\ Height(cached) < h
              THEN chainIndexWithoutCache(ts, h, b) ELSE cached
      par == IF lbts = Nil THEN Nil ELSE TipSetOfKey(Key(Parents(lbts)), b)
  IN IF ts = Nil THEN [res |-> "panic", ts |-> Nil]
     ELSE IF h > Height(ts) THEN [res |-> "error", ts |-> Nil]
     ELSE IF h = Height(ts) THEN [res |-> "nil", ts |-> ts]
     ELSE IF lbts = Nil THEN [res |-> "error", ts |-> Nil]
     ELSE IF Height(lbts) = h \/ ~prev THEN [res |-> "nil", ts |-> lbts]
     ELSE IF par = Nil THEN [res |-> "error", ts |-> Nil]
     ELSE [res |-> "nil", ts |-> par]

\* A GetTipSetByHeight call.
GetTipSetByHeight(ts0, h, prev) ==
  /\ ops < MaxOps
  /\ ops' = ops + 1
  /\ \E cached \in (IF ts0 = Nil /\ head = Nil THEN {Nil}
                     ELSE chainIndexAnswers(IF ts0 = Nil THEN head ELSE ts0, h, bs)) :
       LET r == getTipSetByHeight(head, bs, ts0, h, prev, cached)
       IN opRet' = [op |-> "byheight", ts |-> r.ts, res |-> r.res,
                    from |-> IF ts0 = Nil THEN head ELSE ts0, h |-> h, prev |-> prev]
  /\ UNCHANGED <<tipIndex, checkPoint, bs, callVars>>
  /\ UNCHANGED <<storeVars, callerVars, workerVars, psVars, subVars, histVars, loadVars>>

\* ------------------------------------------------------------------ Import
\* The parent steps Import walks at most.
ImportLoopBack == 900

\* ParentStateRoot and ParentMessageReceipts of the first block of a tipset.
ParentStateRoot(t) == 300 + Key(t)[1]
ParentMessageReceipts(t) == 400 + Key(t)[1]

\* What an Import call on the archive a returns; fail tells what failed
\* outside the store: LoadCar, a datastore write, or nothing.
importRet(a, ts, res, fail) ==
  [op |-> "import", ts |-> ts, res |-> res, root |-> a.root, blocks |-> a.blocks,
   fail |-> fail]

\* An Import call on the archive a (its root key and the tipsets whose blocks
\* it carries): LoadCar fails, or puts the blocks into the block store; then
\* the root tipset and parentTipset are read from it.  Import holds no lock
\* of the store: each of its later steps holds one write of the TipIndex or
\* of the datastore.
Import(m, a, loadOk) ==
  /\ mpc[m] = "idle"
  /\ ops < MaxOps
  /\ ops' = ops + 1
  /\ IF ~loadOk
     THEN /\ opRet' = importRet(a, Nil, "error", "loadcar")
          /\ UNCHANGED <<bs, callVars>>
     ELSE LET b == bs \cup a.blocks
              root == TipSetOfKey(a.root, b)
              parentTipset == IF root = Nil THEN Nil ELSE TipSetOfKey(Key(Parents(root)), b)
          IN /\ bs' = b
             /\ IF root = Nil \/ parentTipset = Nil
                THEN /\ opRet' = importRet(a, Nil, "error", "none")
                     /\ UNCHANGED callVars
                ELSE /\ opAt' = [opAt EXCEPT ![m] = [ti |-> tipIndex, ds |-> ds]]
                     /\ mpc' = [mpc EXCEPT ![m] = "index"]
                     /\ marg' = [marg EXCEPT ![m] =
                                   [op |-> "import", a |-> a, pt |-> parentTipset,
                                    cur |-> root, tgt |-> parentTipset, i |-> 0 - 1]]
                     /\ UNCHANGED opRet
  /\ UNCHANGED <<head, ds, mu, notifees, reorgCh, tipIndex, checkPoint>>
  /\ UNCHANGED <<callerVars, workerVars, psVars, subVars, histVars, loadVars>>

\* Import, the first half of a PutTipSetMetadata: before the loop for
\* parentTipset (tgt is set), in the loop for the parents of curTipset, read
\* from the block store at the head of the round, where the loop also ends:
\* after loopBack rounds, at a parent of height 0 (break), or with an error
\* when the parents cannot be loaded.  Then store.tipIndex.Put.
ImportIndex(m) ==
  /\ mpc[m] = "index"
  /\ LET a == marg[m]
         par == IF a.tgt # Nil THEN a.tgt ELSE TipSetOfKey(Key(Parents(a.cur)), bs)
     IN IF a.tgt = Nil /\ a.i >= ImportLoopBack
        THEN /\ metaReturns(m, importRet(a.a, a.pt, "nil", "none"))
             /\ UNCHANGED tipIndex
        ELSE IF par = Nil
        THEN /\ metaReturns(m, importRet(a.a, Nil, "error", "none"))
             /\ UNCHANGED tipIndex
        ELSE IF a.tgt = Nil /\ Height(par) = 0
        THEN /\ metaReturns(m, importRet(a.a, a.pt, "nil", "none"))
             /\ UNCHANGED tipIndex
        ELSE /\ tipIndex' = tipIndexPut(tipIndex, par, ParentStateRoot(a.cur),
                                        ParentMessageReceipts(a.cur))
             /\ mpc' = [mpc EXCEPT ![m] = "iwrite"]
             /\ marg' = [marg EXCEPT ![m].tgt = par]
             /\ UNCHANGED <<opRet, opAt>>
  /\ UNCHANGED <<head, ds, mu, notifees, reorgCh, checkPoint, bs, ops>>
  /\ UNCHANGED <<callerVars, workerVars, psVars, subVars, histVars, loadVars>>

\* Import, the second half of a PutTipSetMetadata: writeTipSetMetadata; its
\* error is returned, else curTipset moves to the tipset just written.
ImportWrite(m) ==
  /\ mpc[m] = "iwrite"
  /\ LET a == marg[m]
         sr == ParentStateRoot(a.cur)
         rc == ParentMessageReceipts(a.cur)
     IN \E putOk \in BOOLEAN :
          IF writeTipSetMetadataOk(sr, rc, putOk)
          THEN /\ ds' = writeTipSetMetadata(ds, a.tgt, sr, rc)
               /\ mpc' = [mpc EXCEPT ![m] = "index"]
               /\ marg' = [marg EXCEPT ![m].cur = a.tgt, ![m].tgt = Nil, ![m].i = a.i + 1]
               /\ UNCHANGED <<opRet, opAt>>
          ELSE /\ ds' = ds
               /\ metaReturns(m, importRet(a.a, Nil, "error", "put"))
  /\ UNCHANGED <<head, mu, notifees, reorgCh, tipIndex, checkPoint, bs, ops>>
  /\ UNCHANGED <<callerVars, workerVars, psVars, subVars, histVars, loadVars>>

\* -------------------------------------------------------------- checkpoint
\* WriteCheckPoint: ds.Put(CheckPoint, Encode(cids)), or the error of the put.
WriteCheckPoint(cids) ==
  /\ ops < MaxOps
  /\ ops' = ops + 1
  /\ \E putOk \in BOOLEAN :
       IF putOk
       THEN /\ ds' = [ds EXCEPT ![CheckPoint] = Encode(cids)]
            /\ opRet' = OpRet("writecheckpoint", Nil, "nil")
       ELSE /\ ds' = ds
            /\ opRet' = OpRet("writecheckpoint", Nil, "error")
  /\ UNCHANGED <<head, mu, notifees, reorgCh, tipIndex, checkPoint, bs, callVars>>
  /\ UNCHANGED <<callerVars, workerVars, psVars, subVars, histVars, loadVars>>

\* SetCheckPoint that also writes the key to the datastore.
SetCheckPoint_persists(cids) ==
  /\ ops < MaxOps
  /\ ops' = ops + 1
  /\ checkPoint' = cids
  /\ ds' = [ds EXCEPT ![CheckPoint] = Encode(cids)]
  /\ opRet' = OpRet("setcheckpoint", Nil, "nil")
  /\ UNCHANGED <<head, mu, notifees, reorgCh, tipIndex, bs, callVars>>
  /\ UNCHANGED <<callerVars, workerVars, psVars, subVars, histVars, loadVars>>

\* SetCheckPoint: the key is kept in the store, nothing is written.
SetCheckPoint(cids) ==
  /\ ops < MaxOps
  /\ ops' = ops + 1
  /\ checkPoint' = cids
  /\ opRet' = OpRet("setcheckpoint", Nil, "nil")
  /\ UNCHANGED <<head, ds, mu, notifees, reorgCh, tipIndex, bs, callVars>>
  /\ UNCHANGED <<callerVars, workerVars, psVars, subVars, histVars, loadVars>>

\* GetCheckPoint: the key kept in the store.
GetCheckPoint == checkPoint

\* ------------------------------------------------------------ specification
\* The tipsets callers pass to SetHead.
HeadInputs == {"A", "C", "D", "Z"}

\* The same with the undefined tipset, which SetHead logs and goes on with.
HeadInputsUndef == HeadInputs \cup {UndefTipSet}

\* Concurrent SetHead callers, the reorg worker, the topic and a subscriber.
Next ==
  \/ \E p \in Callers, t \in HeadInputsUndef : SetHeadEnter(p, t)
  \/ \E p \in Callers : SetHeadWrite(p)
  \/ \E p \in Callers : SetHeadCommit(p)
  \/ \E p \in Callers : SetHeadSend(p)
  \/ WorkerRecv
  \/ WorkerCall
  \/ PsStep
  \/ \E s \in Subs : PsSend(s)
  \/ \E s \in Subs : SubHeadChangesSnapshot(s)
  \/ \E s \in Subs : SubHeadChangesSub(s)
  \/ \E s \in Subs : FwdRecv(s)
  \/ \E s \in Subs : FwdSend(s)

Spec == Init /\ [][Next]_vars

\* One SetHead at a time (a single writer), with the worker, the topic and a subscriber.
NextSeq ==
  \/ \E p \in Callers, t \in HeadInputs :
       (\A q \in Callers : pc[q] = "idle") /\ SetHeadEnter(p, t)
  \/ \E p \in Callers : SetHeadWrite(p)
  \/ \E p \in Callers : SetHeadCommit(p)
  \/ \E p \in Callers : SetHeadSend(p)
  \/ WorkerRecv
  \/ WorkerCall
  \/ PsStep
  \/ \E s \in Subs : PsSend(s)
  \/ \E s \in Subs : SubHeadChangesSnapshot(s)
  \/ \E s \in Subs : SubHeadChangesSub(s)
  \/ \E s \in Subs : FwdRecv(s)
  \/ \E s \in Subs : FwdSend(s)
  \/ \E s \in Subs : Consume(s)

SpecSeq == Init /\ [][NextSeq]_vars

\* Callbacks registered through SubscribeHeadChanges while heads are set.
NextReg ==
  \/ \E t \in HeadInputs : SetHeadEnter("c1", t)
  \/ SetHeadWrite("c1")
  \/ SetHeadCommit("c1")
  \/ SetHeadSend("c1")
  \/ WorkerRecv
  \/ WorkerCall
  \/ PsStep
  \/ \E f \in Callbacks : SubscribeHeadChanges(f)

SpecReg == Init /\ [][NextReg]_vars

\* The worker loop over any list of notifees: the list the worker starts with
\* is drawn from the lists over headChangeNotifee and two callbacks.
NotifeeLists ==
  { <<HC>>, <<HC, "f1">>, <<"f1", HC>>, <<HC, "f1", "f2">>, <<"f1", HC, "f2">>,
    <<"f2", "f1", HC>> }

InitNotifee == \E l \in NotifeeLists : InitWith(l)

NextNotifee ==
  \/ \E t \in HeadInputs : SetHeadEnter("c1", t)
  \/ SetHeadWrite("c1")
  \/ SetHeadCommit("c1")
  \/ SetHeadSend("c1")
  \/ WorkerRecv
  \/ WorkerCall
  \/ PsStep

SpecNotifee == InitNotifee /\ [][NextNotifee]_vars

\* ---- a slow subscriber
\* The store after a subscriber subscribed on the fresh store and PreCommits
\* head changes, C, D, C, ..., went through to its channel, none of them read:
\* the channel is three batches short of full.
PreCommits == OutCap - 3
\* The heads set on top of them.
SlowInputs == {"C", "D"}
PreHead(k) == IF k % 2 = 1 THEN "C" ELSE "D"
PreReorg(k) ==
  IF k = 1 THEN [err |-> FALSE, old |-> <<>>, new |-> <<PreHead(1)>>]
  ELSE CollectTipsToCommonAncestor(PreHead(k - 1), PreHead(k))
PreBatch(k) ==
  Batch(k, headChangeNotifee(Reverse(PreReorg(k).old), Reverse(PreReorg(k).new)))
PreBatches == [k \in 1 .. PreCommits |-> PreBatch(k)]

InitSlow ==
  /\ head = PreHead(PreCommits)
  /\ ds = writeHead(EmptyDs, Key(PreHead(PreCommits)))
  /\ InitMeta(TipSets)
  /\ mu = NoOne
  /\ notifees = <<>>
  /\ reorgCh = <<>>
  /\ pc = [p \in Callers |-> "idle"]
  /\ arg = [p \in Callers |-> Nil]
  /\ dropped = [p \in Callers |-> <<>>]
  /\ added = [p \in Callers |-> <<>>]
  /\ cseq = [p \in Callers |-> 0]
  /\ calls = 0
  /\ lastRet = Returned("c1", PreHead(PreCommits), "nil")
  /\ wpc = "recv"
  /\ wr = NoReorg
  /\ wi = 0
  /\ wNotifees = <<HC>>
  /\ toremove = {}
  /\ cmdChan = <<>>
  /\ psSubs = Subs
  /\ psPend = {}
  /\ psMsg = NoBatch
  /\ psState = "run"
  /\ fpc = [s \in Subs |-> "loop"]
  /\ subCh = [s \in Subs |-> <<>>]
  /\ subClosed = [s \in Subs |-> FALSE]
  /\ fval = [s \in Subs |-> NoBatch]
  /\ ctxDone = [s \in Subs |-> FALSE]
  /\ unsub = [s \in Subs |-> "no"]
  /\ out = [s \in Subs |-> <<CurrentBatch(Nil)>> \o PreBatches]
  /\ outClosed = [s \in Subs |-> FALSE]
  /\ commits = [k \in 1 .. PreCommits |->
                  [ts |-> PreHead(k), slot |-> Encode(Key(PreHead(k)))]]
  /\ enqLog = [k \in 1 .. PreCommits |-> k]
  /\ published = [k \in 1 .. PreCommits |-> k]
  /\ invoked = <<>>
  /\ regAt = <<>>
  /\ wInit = <<HC>>
  /\ sent = [s \in Subs |-> <<CurrentBatch(Nil)>> \o PreBatches]
  /\ recvd = [s \in Subs |-> PreBatches]
  /\ snapSeq = [s \in Subs |-> 0]
  /\ stopped = FALSE

NextSlow ==
  \/ \E t \in SlowInputs : SetHeadEnter("c1", t)
  \/ SetHeadWrite("c1")
  \/ SetHeadCommit("c1")
  \/ SetHeadSend("c1")
  \/ WorkerRecv
  \/ WorkerCall
  \/ PsStep
  \/ \E s \in Subs : PsSend(s)
  \/ \E s \in Subs : FwdRecv(s)
  \/ \E s \in Subs : FwdExit(s)
  \/ \E s \in Subs : FwdSend(s)
  \/ \E s \in Subs : FwdDrop(s)
  \/ \E s \in Subs : FwdCtxDone(s)
  \/ \E s \in Subs : UnsubSend(s)
  \/ \E s \in Subs : CtxCancel(s)
  \/ \E s \in Subs : Consume(s)
  \/ Stop

SpecSlow == InitSlow /\ [][NextSlow]_vars

\* ---- a full reorg channel
\* The store after FullCommits head changes, C, D, C, ..., none of which the
\* worker has taken yet: the reorg channel is one reorg short of full.  The
\* worker takes no step in NextFull: it is held up for as long as we look.
FullCommits == ReorgChCap - 1
FullReorg(k) ==
  [old |-> Reverse(PreReorg(k).old), new |-> Reverse(PreReorg(k).new), seq |-> k]

InitFull ==
  /\ head = PreHead(FullCommits)
  /\ ds = writeHead(EmptyDs, Key(PreHead(FullCommits)))
  /\ InitMeta(TipSets)
  /\ mu = NoOne
  /\ notifees = <<>>
  /\ reorgCh = [k \in 1 .. FullCommits |-> FullReorg(k)]
  /\ pc = [p \in Callers |-> "idle"]
  /\ arg = [p \in Callers |-> Nil]
  /\ dropped = [p \in Callers |-> <<>>]
  /\ added = [p \in Callers |-> <<>>]
  /\ cseq = [p \in Callers |-> 0]
  /\ calls = 0
  /\ lastRet = Returned("c1", PreHead(FullCommits), "nil")
  /\ wpc = "recv"
  /\ wr = NoReorg
  /\ wi = 0
  /\ wNotifees = <<HC>>
  /\ toremove = {}
  /\ cmdChan = <<>>
  /\ psSubs = {}
  /\ psPend = {}
  /\ psMsg = NoBatch
  /\ psState = "run"
  /\ fpc = [s \in Subs |-> "none"]
  /\ subCh = [s \in Subs |-> <<>>]
  /\ subClosed = [s \in Subs |-> FALSE]
  /\ fval = [s \in Subs |-> NoBatch]
  /\ ctxDone = [s \in Subs |-> FALSE]
  /\ unsub = [s \in Subs |-> "no"]
  /\ out = [s \in Subs |-> <<>>]
  /\ outClosed = [s \in Subs |-> FALSE]
  /\ commits = [k \in 1 .. FullCommits |->
                  [ts |-> PreHead(k), slot |-> Encode(Key(PreHead(k)))]]
  /\ enqLog = [k \in 1 .. FullCommits |-> k]
  /\ published = <<>>
  /\ invoked = <<>>
  /\ regAt = <<>>
  /\ wInit = <<HC>>
  /\ sent = [s \in Subs |-> <<>>]
  /\ recvd = [s \in Subs |-> <<>>]
  /\ snapSeq = [s \in Subs |-> 0]
  /\ stopped = FALSE

NextFull ==
  \/ \E p \in Callers, t \in SlowInputs : SetHeadEnter(p, t)
  \/ \E p \in Callers : SetHeadWrite(p)
  \/ \E p \in Callers : SetHeadCommit(p)
  \/ \E p \in Callers : SetHeadSend(p)
  \/ PsStep
  \/ \E s \in Subs : SubHeadChangesSnapshot(s)
  \/ \E s \in Subs : SubHeadChangesSub(s)

SpecFull == InitFull /\ [][NextFull]_vars

\* ---- Stop with a subscriber
\* The fresh store, or the store with a slow subscriber whose channel is
\* three batches short of full.
InitStop == Init \/ InitSlow

\* On the fresh store one head is set, on the other heads are set, C and D in
\* turn.  A subscriber subscribes and may cancel; it is a slow one, which
\* reads a batch when its channel is full, or leaves it unread.  Stop is
\* called once the channel has been returned, and no one subscribes after it.
NextStop ==
  \/ (head = Nil \/ Len(commits) >= PreCommits)
       /\ SetHeadEnter("c1", IF head = "C" THEN "D" ELSE "C")
  \/ SetHeadWrite("c1")
  \/ SetHeadCommit("c1")
  \/ SetHeadSend("c1")
  \/ WorkerRecv
  \/ WorkerCall
  \/ PsStep
  \/ \E s \in Subs : PsSend(s)
  \/ \E s \in Subs : ~stopped /\ SubHeadChangesSnapshot(s)
  \/ \E s \in Subs : SubHeadChangesSub(s)
  \/ \E s \in Subs : FwdRecv(s)
  \/ \E s \in Subs : FwdExit(s)
  \/ \E s \in Subs : FwdSend(s)
  \/ \E s \in Subs : FwdDrop(s)
  \/ \E s \in Subs : FwdCtxDone(s)
  \/ \E s \in Subs : UnsubSend(s)
  \/ \E s \in Subs : CtxCancel(s)
  \/ \E s \in Subs : Len(out[s]) = OutCap /\ Consume(s)
  \/ (\A s \in Subs : fpc[s] # "snap") /\ Stop

\* The goroutines of the program run whenever they can: the topic's goroutine
\* and the forwarding goroutine.  Nothing is assumed of the subscriber, who
\* reads its channel or leaves it unread.
FairStop ==
  /\ WF_vars(PsStep)
  /\ \A s \in Subs :
       /\ WF_vars(PsSend(s))
       /\ WF_vars(FwdRecv(s))
       /\ WF_vars(FwdExit(s))
       /\ WF_vars(FwdSend(s))
       /\ WF_vars(FwdDrop(s))

SpecStop == InitStop /\ [][NextStop]_vars /\ FairStop

\* ---- tipset metadata put and deleted
\* The tipsets and roots handed to PutTipSetMetadata and DelTipSetMetadata.
MetaInputs == {"A", "B", "C"}
RootInputs == {Undef, 7, 8}

\* One goroutine puts and deletes, one call after the other, while a second
\* one puts and deletes the tipset A.
NextMeta ==
  \/ \E t \in MetaInputs, sr \in RootInputs, rc \in RootInputs :
       PutTipSetMetadata("m1", t, sr, rc)
  \/ PutTipSetMetadata("m2", "A", 8, 7)
  \/ \E m \in MetaThreads : PutTipSetMetadataWrite(m)
  \/ \E t \in MetaInputs : DelTipSetMetadata("m1", t)
  \/ DelTipSetMetadata("m2", "A")
  \/ \E m \in MetaThreads : DelTipSetMetadataDelete(m)

SpecMeta == Init /\ [][NextMeta]_vars

\* ---- Load on a datastore left by an earlier run
\* The datastore of an earlier run: the head slot v, the checkpoint slot c and
\* the metadata of every tipset.
StoredDs(v, c) ==
  [k \in DsKeys |->
     IF k = HeadKey THEN v
     ELSE IF k = CheckPoint THEN c
     ELSE LET t == CHOOSE x \in TipSets : MetaKey(x) = k
          IN EncodeMeta(StateRootOf(t), ReceiptsOf(t))]

\* The head slots: absent, not a key, the key of no tipset, the key of a tipset.
LoadHeadSlots ==
  {NoVal, <<7>>, Encode(<<99>>)} \cup {Encode(Key(t)) : t \in {"F", "C", "Z"}}
\* The checkpoint slots: absent, the empty key, the key of a tipset.
LoadCheckPointSlots == {NoVal, Encode(<<>>)} \cup {Encode(Key(t)) : t \in {"C", "E", "F"}}
\* What is wrong with the store: nothing, or at one tipset the metadata is
\* absent, is not a tsState, holds an undefined root, or a block is missing.
LoadDamages ==
  {[kind |-> "none", ts |-> Nil]} \cup
  [kind : {"absent", "garbage", "undef", "noblock"}, ts : {"F", "E", "D", "A", "G", "C"}]

DamagedDs(d, dm) ==
  CASE dm.kind = "absent" -> [d EXCEPT ![MetaKey(dm.ts)] = NoVal]
    [] dm.kind = "garbage" -> [d EXCEPT ![MetaKey(dm.ts)] = <<9>>]
    [] dm.kind = "undef" -> [d EXCEPT ![MetaKey(dm.ts)] = EncodeMeta(Undef, ReceiptsOf(dm.ts))]
    [] OTHER -> d
DamagedBs(dm) == IF dm.kind = "noblock" THEN TipSets \ {dm.ts} ELSE TipSets

InitLoad ==
  \E v \in LoadHeadSlots, c \in LoadCheckPointSlots, dm \in LoadDamages :
    InitStore(<<HC>>, DamagedDs(StoredDs(v, c), dm), DamagedBs(dm))

NextLoad ==
  \/ LoadStart
  \/ LoadHead
  \/ LoadBlocks
  \/ LoadCheckPoint
  \/ LoadWalk
  \/ LoadIndex
  \/ LoadWrite
  \/ LoadSetHead
  \/ SetHeadWrite(LoadThread)
  \/ SetHeadCommit(LoadThread)
  \/ SetHeadSend(LoadThread)
  \/ WorkerRecv
  \/ WorkerCall
  \/ PsStep

SpecLoad == InitLoad /\ [][NextLoad]_vars

\* ---- Load while another thread sets heads
InitLoadRace ==
  \E v \in {NoVal} \cup {Encode(Key(t)) : t \in {"F", "C", "Z"}}, c \in LoadCheckPointSlots :
    InitStore(<<HC>>, StoredDs(v, c), TipSets)

NextLoadRace ==
  \/ \E t \in HeadInputs : SetHeadEnter("c1", t)
  \/ \E p \in Callers : SetHeadWrite(p)
  \/ \E p \in Callers : SetHeadCommit(p)
  \/ \E p \in Callers : SetHeadSend(p)
  \/ LoadStart
  \/ LoadHead
  \/ LoadBlocks
  \/ LoadCheckPoint
  \/ LoadWalk
  \/ LoadIndex
  \/ LoadWrite
  \/ LoadSetHead
  \/ WorkerRecv
  \/ WorkerCall
  \/ PsStep

SpecLoadRace == InitLoadRace /\ [][NextLoadRace]_vars

\* ---- ancestors asked for by height
\* The heights asked for: every height of the chain and one above.
MaxHeight == CHOOSE h \in {Height(t) : t \in TipSets} : \A t \in TipSets : Height(t) <= h
QueryHeights == 0 .. (MaxHeight + 1)

\* The heads set before asking, and the tipsets asked from (Nil: the head).
QueryHeads == {"F", "C"}
QueryFrom == {Nil, "D"}

NextQuery ==
  \/ \E t \in QueryHeads : ops = 0 /\ SetHeadEnter("c1", t)
  \/ SetHeadWrite("c1")
  \/ SetHeadCommit("c1")
  \/ SetHeadSend("c1")
  \/ \E ts \in QueryFrom, h \in QueryHeights, prev \in BOOLEAN :
       pc["c1"] = "idle" /\ GetTipSetByHeight(ts, h, prev)

SpecQuery == Init /\ [][NextQuery]_vars

\* ---- archives imported
\* The archives: the chain of a root down to genesis, or only its upper part.
ImportArchives ==
  {[root |-> Key(t), blocks |-> Ancestors(t)] : t \in {"F", "A", "G"}}
    \cup {[root |-> Key("F"), blocks |-> {"F", "E", "D"}],
          [root |-> Key("C"), blocks |-> {"C"}]}

\* The heads set before importing.
ImportHeads == {"G", "Z"}

\* A store whose block store holds the genesis block only.
InitImport == InitStore(<<HC>>, EmptyDs, {"G"})

NextImport ==
  \/ \E a \in ImportArchives, loadOk \in BOOLEAN :
       pc["c1"] = "idle" /\ Import("m1", a, loadOk)
  \/ ImportIndex("m1")
  \/ ImportWrite("m1")
  \/ \E t \in ImportHeads : ops = 0 /\ SetHeadEnter("c1", t)
  \/ SetHeadWrite("c1")
  \/ SetHeadCommit("c1")
  \/ SetHeadSend("c1")

SpecImport == InitImport /\ [][NextImport]_vars

\* ---- checkpoints set and written among the other operations
\* No SetHead call is under way.
CallersIdle == \A p \in Callers : pc[p] = "idle"

\* No SetHead call and no SubHeadChanges call is under way.
Calm == CallersIdle /\ \A s \in Subs : fpc[s] # "snap"

\* A store opened on the datastore of an earlier run, with or without a
\* checkpoint slot.
InitCheckPoint ==
  \E c \in {NoVal, Encode(Key("C"))} :
    InitStore(<<HC>>, StoredDs(Encode(Key("A")), c), TipSets)

\* The caller of the checkpoint operations, SetHead, SubHeadChanges and Stop
\* calls them while no Load, Import, PutTipSetMetadata or DelTipSetMetadata
\* is under way.
Quiet ==
  /\ Calm
  /\ lpc \in {"idle", "called", "failed"}
  /\ \A m \in MetaThreads : mpc[m] = "idle"

\* Load runs next to a goroutine that imports, puts and deletes, all of them
\* on the tipset A.  The head D is set when it is not the head already, and
\* the store is stopped after Load has been called.
NextCheckPoint ==
  \/ Quiet /\ WriteCheckPoint(Key("E"))
  \/ Quiet /\ SetCheckPoint(Key("C"))
  \/ Quiet /\ head # "D" /\ SetHeadEnter("c1", "D")
  \/ \E p \in Callers : SetHeadWrite(p)
  \/ \E p \in Callers : SetHeadCommit(p)
  \/ \E p \in Callers : SetHeadSend(p)
  \/ Calm /\ LoadStart
  \/ LoadHead
  \/ LoadBlocks
  \/ LoadCheckPoint
  \/ LoadWalk
  \/ LoadIndex
  \/ LoadWrite
  \/ LoadSetHead
  \/ Calm /\ Import("m1", [root |-> Key("B"), blocks |-> Ancestors("B")], TRUE)
  \/ ImportIndex("m1")
  \/ ImportWrite("m1")
  \/ Calm /\ PutTipSetMetadata("m1", "A", 7, 8)
  \/ PutTipSetMetadataWrite("m1")
  \/ Calm /\ DelTipSetMetadata("m1", "A")
  \/ DelTipSetMetadataDelete("m1")
  \/ \E s \in Subs : Quiet /\ SubHeadChangesSnapshot(s)
  \/ \E s \in Subs : SubHeadChangesSub(s)
  \/ Quiet /\ lpc # "idle" /\ Stop

SpecCheckPoint == InitCheckPoint /\ [][NextCheckPoint]_vars

\* ---- heads set over every pair of tipsets
NextPairs ==
  \/ \E t \in TipSets : SetHeadEnter("c1", t)
  \/ SetHeadWrite("c1")
  \/ SetHeadCommit("c1")
  \/ SetHeadSend("c1")

SpecPairs == Init /\ [][NextPairs]_vars

\* -------------------------------------------------------------- properties
\* A SetHead call returns in this step (its result is lastRet').
SetHeadReturns ==
  \/ calls' # calls /\ pc' = pc
  \/ \E p \in Callers : pc[p] \in {"write", "commit", "send"} /\ pc'[p] = "idle"

\* C1: when a SetHead(newTs) call returns nil, GetHead() is newTs.Key() and the
\* value stored under HeadKey is the encoding of newTs.Key().
C1_SetHeadInstallsHead ==
  [][(SetHeadReturns /\ lastRet'.res = "nil")
       => /\ GetHead' = Key(lastRet'.ts)
          /\ ds'[HeadKey] = Encode(Key(lastRet'.ts))]_vars

\* A call has replaced an earlier head and returned nil.
C1_Witness ==
  /\ lastRet.res = "nil"
  /\ \A p \in Callers : pc[p] = "idle"
  /\ Len(commits) >= 2
  /\ commits[Len(commits)].ts = lastRet.ts
  /\ GetHead = Key(lastRet.ts)

\* ---- helpers of the properties: the chain, read off the block store

RECURSIVE AscendingByHeight(_)
\* The tipsets of S, lowest first.
AscendingByHeight(S) ==
  IF S = {} THEN <<>>
  ELSE LET lo == CHOOSE x \in S : \A y \in S : Height(x) <= Height(y)
       IN <<lo>> \o AscendingByHeight(S \ {lo})

\* The head before commit j, and the head it installed.
OldHeadOf(j) == IF j = 1 THEN Nil ELSE commits[j - 1].ts
NewHeadOf(j) == commits[j].ts

\* The tipsets commit j took off the chain and put on it.
DroppedBy(j) == Ancestors(OldHeadOf(j)) \ Ancestors(NewHeadOf(j))
AddedBy(j) ==
  IF OldHeadOf(j) = Nil THEN {NewHeadOf(j)}
  ELSE Ancestors(NewHeadOf(j)) \ Ancestors(OldHeadOf(j))

Range(q) == {q[i] : i \in DOMAIN q}
IsStrictlyAscending(q) == \A i, j \in DOMAIN q : i < j => q[i] < q[j]
Occurrences(q, x) == Cardinality({i \in DOMAIN q : q[i] = x})

\* Every head-change batch on its way to a subscriber or already on its channel.
PublishedBatches ==
  {c.msg : c \in {d \in Range(cmdChan) : d.op = "pub"}}
    \cup (IF psPend # {} THEN {psMsg} ELSE {})
    \cup UNION {Range(subCh[s]) : s \in Subs}
    \cup {fval[s] : s \in {x \in Subs : fpc[x] = "hold"}}
    \cup UNION {{b \in Range(sent[s]) : b.seq >= 1} : s \in Subs}

\* C2: reorg batches reach the reorg channel in the order in which their
\* SetHead calls committed the head.
C2_EnqueuedInCommitOrder ==
  /\ IsStrictlyAscending(enqLog)
  /\ IsStrictlyAscending(published)

\* The batch b is the one of commit b.seq: reverts, then applies, each the
\* dropped or added tipsets lowest first, the common ancestors in neither.
IsBatchOfCommit(b) ==
  /\ b.seq \in 1 .. Len(commits)
  /\ LET rv == AscendingByHeight(DroppedBy(b.seq))
         ap == AscendingByHeight(AddedBy(b.seq))
     IN /\ Len(b.notif) = Len(rv) + Len(ap)
        /\ \A i \in 1 .. Len(rv) :
             b.notif[i].Type = HCRevert /\ b.notif[i].Val = rv[i]
        /\ \A i \in 1 .. Len(ap) :
             /\ b.notif[Len(rv) + i].Type = HCApply
             /\ b.notif[Len(rv) + i].Val = ap[i]
        /\ \A i \in DOMAIN b.notif :
             b.notif[i].Val \notin
               (Ancestors(OldHeadOf(b.seq)) \cap Ancestors(NewHeadOf(b.seq)))

\* C3: a head-changing SetHead yields exactly one batch: one reorg is enqueued
\* for each commit once its call has returned, no subscriber is sent a commit's
\* batch twice, and every batch holds the reverts (dropped tipsets, lowest
\* first) before the applies (added tipsets, lowest first).
C3_OneOrderedBatch ==
  /\ \A b \in PublishedBatches : IsBatchOfCommit(b)
  /\ \A j \in 1 .. Len(commits) :
       Occurrences(enqLog, j) = IF \E p \in Callers : cseq[p] = j THEN 0 ELSE 1
  /\ \A s \in Subs : \A i, k \in DOMAIN sent[s] :
       (i # k /\ sent[s][i].seq >= 1) => sent[s][i].seq # sent[s][k].seq

\* A subscriber was sent the batch of a reorg from C to D: two reverts, two applies.
C3_Witness ==
  \E s \in Subs : \E b \in Range(sent[s]) :
    /\ Len(b.notif) = 4
    /\ b.notif[1] = [Type |-> HCRevert, Val |-> "B"]
    /\ b.notif[2] = [Type |-> HCRevert, Val |-> "C"]
    /\ b.notif[3] = [Type |-> HCApply, Val |-> "B2"]
    /\ b.notif[4] = [Type |-> HCApply, Val |-> "D"]

\* The tipset of the SetHead call entered in this step.
EnteredTs ==
  IF pc' = pc THEN lastRet'.ts
  ELSE arg'[CHOOSE p \in Callers : pc'[p] # pc[p]]

\* C4: a SetHead(t) called while the head is t by key returns nil at once and
\* changes neither the head nor the datastore nor the reorg channel, so that
\* no commit repeats the head before it: two successive SetHead(t) give one batch.
C4_SameHeadIsNoOp ==
  /\ [](\A j \in 1 .. Len(commits) : j > 1 => commits[j].ts # commits[j - 1].ts)
  /\ [][(calls' = calls + 1 /\ head # Nil /\ Key(head) = Key(EnteredTs))
          => /\ pc' = pc
             /\ lastRet'.res = "nil"
             /\ head' = head
             /\ ds' = ds
             /\ reorgCh' = reorgCh
             /\ enqLog' = enqLog]_vars

\* The second of two SetHead(t) calls has returned: one commit, one batch.
C4_Witness ==
  /\ calls = 2
  /\ \A p \in Callers : pc[p] = "idle"
  /\ lastRet.res = "nil"
  /\ head = lastRet.ts
  /\ Len(commits) = 1
  /\ Len(enqLog) = 1

\* A SetHead call returns from the common-ancestor computation or from the
\* datastore write.
SetHeadFailsUnderLock ==
  \/ calls' # calls /\ pc' = pc
  \/ \E p \in Callers : pc[p] = "write" /\ pc'[p] = "idle"

\* C5: a SetHead that fails (no common ancestor, or the datastore write failed)
\* returns the error with the head, the datastore and the reorg channel as they
\* were when it was called: entering the call changes none of them, nothing
\* changes the head or its slot while the call waits to write, and the step
\* that returns the error changes none of them and publishes nothing.
C5_FailureKeepsHead ==
  [][/\ calls' # calls => (head' = head /\ ds' = ds /\ reorgCh' = reorgCh)
     /\ \A p \in Callers :
          (pc[p] = "write" /\ pc'[p] # "commit")
            => (head' = head /\ ds'[HeadKey] = ds[HeadKey])
     /\ (SetHeadFailsUnderLock /\ lastRet'.res = "error")
          => /\ head' = head
             /\ ds' = ds
             /\ reorgCh' = reorgCh
             /\ enqLog' = enqLog
             /\ commits' = commits
             /\ cmdChan' = cmdChan]_vars

\* A SetHead that had a common ancestor with the head has failed at the
\* datastore write, with a head installed before it.
C5_Witness ==
  /\ lastRet.res = "error"
  /\ head # Nil
  /\ ~CollectTipsToCommonAncestor(head, lastRet.ts).err
  /\ ds[HeadKey] = Encode(Key(head))
  /\ \A p \in Callers : pc[p] = "idle"

\* The reorgs and batches handed on by SetHead calls, at every stage from the
\* reorg channel to the subscribers and the callbacks.
DeliveredSeqs ==
  {r.seq : r \in Range(reorgCh)}
    \cup (IF wpc = "call" THEN {wr.seq} ELSE {})
    \cup {b.seq : b \in PublishedBatches}
    \cup {e.seq : e \in Range(invoked)}

\* C6: whenever a batch of a SetHead call is on its way to, or has reached, a
\* subscriber or notifee, the head slot held the encoding of that call's key
\* when the call committed, and holds the key of that or of a later call.
C6_PersistedBeforeNotified ==
  \A j \in DeliveredSeqs :
    /\ j \in 1 .. Len(commits)
    /\ commits[j].slot = Encode(Key(NewHeadOf(j)))
    /\ ds[HeadKey] \in
         {Encode(Key(NewHeadOf(i))) : i \in j .. Len(commits)}
           \cup {Encode(Key(arg[p])) : p \in {q \in Callers : pc[q] = "commit"}}

\* A subscriber holds the batch of a second head change on its channel.
C6_Witness ==
  \E s \in Subs : \E b \in Range(out[s]) :
    b.seq = 2 /\ ds[HeadKey] = Encode(Key(NewHeadOf(2)))

\* C7: the first batch on the channel of SubHeadChanges is [{current, head}]
\* for the head read under the lock, and every batch published for a commit
\* made after that read reaches the subscriber: once the topic has taken its
\* publish command the batch is owed to, queued for or received by the
\* subscriber.
C7_SnapshotThenEveryBatch ==
  \A s \in Subs :
    (fpc[s] # "none" /\ ~ctxDone[s]) =>
      /\ sent[s][1] =
           CurrentBatch(IF snapSeq[s] = 0 THEN Nil ELSE commits[snapSeq[s]].ts)
      /\ \A i \in DOMAIN published :
           published[i] > snapSeq[s] =>
             \/ s \in psPend /\ psMsg.seq = published[i]
             \/ \E b \in Range(subCh[s]) \cup Range(recvd[s]) : b.seq = published[i]

\* ---- C8
\* What the forwarding goroutine of s holds for the inner select.
Held(s) == IF fpc[s] = "hold" THEN <<fval[s]>> ELSE <<>>

\* The forwarding goroutine of s gives up on the batch it holds in this step.
DropsHeld(s) == fpc[s] = "hold" /\ fpc'[s] # "hold" /\ sent'[s] = sent[s]

\* C8: the forwarding goroutine gives up on a received batch only when the
\* subscriber's context is cancelled; while the context is live the output
\* channel never holds more than OutCap batches and the batches forwarded after
\* the snapshot, plus the one held, are exactly the batches received, in order.
C8_DropOnlyWhenCancelled ==
  /\ [](\A s \in Subs :
          (fpc[s] # "none" /\ ~ctxDone[s]) =>
            /\ Len(out[s]) <= OutCap
            /\ Tail(sent[s]) \o Held(s) = recvd[s])
  /\ [][\A s \in Subs : DropsHeld(s) => ctxDone[s]]_vars

\* The forwarding goroutine waits with a batch while the output channel is full
\* and the context is live.
C8_Witness ==
  \E s \in Subs :
    /\ ~ctxDone[s]
    /\ fpc[s] = "hold"
    /\ Len(out[s]) = OutCap
    /\ Len(recvd[s]) > PreCommits

\* ---- C9, C10
\* The number of reorgs the worker has taken off the channel and finished
\* (one caller: the channel holds the reorgs in the order of enqLog).
NProcessed == Len(enqLog) - Len(reorgCh) - (IF wpc = "call" THEN 1 ELSE 0)

\* The positions in invoked of the calls of f for the reorg of commit q.
CallsOf(f, q) == {n \in DOMAIN invoked : invoked[n].f = f /\ invoked[n].seq = q}

\* C9: a callback registered through SubscribeHeadChanges is invoked once for
\* each processed reorg that was enqueued after its registration, with the
\* reorg's revert and apply lists, and callbacks registered earlier are
\* invoked earlier within the reorg.
C9_CallbacksInvoked ==
  \A i \in DOMAIN notifees : \A k \in (regAt[i] + 1) .. NProcessed :
    LET same == {j \in DOMAIN notifees : notifees[j] = notifees[i] /\ regAt[j] < k}
    IN /\ Cardinality(CallsOf(notifees[i], enqLog[k])) = Cardinality(same)
       /\ \A n \in CallsOf(notifees[i], enqLog[k]) :
            /\ invoked[n].rev = AscendingByHeight(DroppedBy(enqLog[k]))
            /\ invoked[n].app = AscendingByHeight(AddedBy(enqLog[k]))
       /\ \A j \in DOMAIN notifees :
            (j > i /\ regAt[j] < k /\ notifees[j] # notifees[i]) =>
              \A n \in CallsOf(notifees[i], enqLog[k]),
                 m \in CallsOf(notifees[j], enqLog[k]) : n < m

\* The callback f returned ErrNotifeeDone for a reorg before that of commit q.
DoneBefore(f, q) ==
  \E n \in DOMAIN invoked :
    invoked[n].f = f /\ invoked[n].res = ErrNotifeeDone /\ invoked[n].seq < q

\* The notifees of the worker's first list that have not returned
\* ErrNotifeeDone for a reorg before that of commit q, in their order.
RegisteredAt(q) == SelectSeq(wInit, LAMBDA f : ~DoneBefore(f, q))

\* C10: a notifee that returned ErrNotifeeDone is not invoked again; the
\* worker's list is its first list without the notifees that returned
\* ErrNotifeeDone for an earlier reorg, in the same order; and each callback
\* that has not is invoked once for every processed reorg, a callback earlier
\* in the list first.
C10_DoneRemovesNotifee ==
  /\ \A n, m \in DOMAIN invoked :
       (n < m /\ invoked[n].f = invoked[m].f) => invoked[n].res # ErrNotifeeDone
  /\ wNotifees = RegisteredAt(IF wpc = "call" THEN wr.seq ELSE Len(commits) + 1)
  /\ \A k \in 1 .. NProcessed :
       LET cbs == SelectSeq(RegisteredAt(enqLog[k]), LAMBDA f : f # HC)
       IN /\ \A i \in DOMAIN cbs : Cardinality(CallsOf(cbs[i], enqLog[k])) = 1
          /\ \A i, j \in DOMAIN cbs :
               i < j => \A n \in CallsOf(cbs[i], enqLog[k]),
                           m \in CallsOf(cbs[j], enqLog[k]) : n < m

\* A callback returned ErrNotifeeDone, another returned an error, and a later
\* reorg was processed with the second callback only.
C10_Witness ==
  /\ wpc = "recv"
  /\ wInit = <<"f1", HC, "f2">>
  /\ wNotifees = <<HC, "f2">>
  /\ \E n, m, l \in DOMAIN invoked :
       /\ invoked[n].f = "f1" /\ invoked[n].res = ErrNotifeeDone
       /\ invoked[m].f = "f2" /\ invoked[m].res = "error"
       /\ invoked[m].seq = invoked[n].seq
       /\ invoked[l].f = "f2" /\ invoked[l].seq > invoked[n].seq

\* ---- C11
\* The roots persisted for t are both defined.
PersistedDefined(t) ==
  ds[MetaKey(t)] # NoVal =>
    DecodeMetaOk(ds[MetaKey(t)]) /\ ds[MetaKey(t)][2] # Undef /\ ds[MetaKey(t)][3] # Undef

\* The TipIndex and the datastore when the call of the goroutine m began: as
\* recorded, or as they are when the call begins in this step.
CallStart(m) == IF mpc[m] = "idle" THEN [ti |-> tipIndex, ds |-> ds] ELSE opAt[m]

\* Every PutTipSetMetadata, DelTipSetMetadata and Import call has returned.
NoCallUnderWay == \A m \in MetaThreads : mpc[m] = "idle"

\* C11: every tipset in the TipIndex or in the persisted per-tipset namespace
\* has a defined state root and a defined receipts root, after any
\* PutTipSetMetadata and DelTipSetMetadata calls, failed ones included.
C11_MetadataTotal ==
  NoCallUnderWay =>
    \A t \in TipSets :
      /\ tipIndexHas(tipIndex, t) => (tipIndex[t][1] # Undef /\ tipIndex[t][2] # Undef)
      /\ PersistedDefined(t)

\* ---- C12, C13
\* Load has returned nil: its SetHead call has.
LoadSucceeded ==
  lpc = "called" /\ pc[LoadThread] = "idle" /\ lastRet = Returned(LoadThread, lhead, "nil")

\* The tipset of the persisted head key.
PersistedHead ==
  IF ds[HeadKey] # NoVal /\ DecodeOk(ds[HeadKey])
  THEN TipSetOfKey(Decode(ds[HeadKey]), TipSets) ELSE Nil

\* stop_at: the checkpoint's height less ten, never below 0; 0 without a checkpoint.
StopAt ==
  LET cp == TipSetOfKey(checkPoint, TipSets)
  IN IF checkPoint = <<>> \/ cp = Nil \/ Height(cp) - 10 < 0 THEN 0 ELSE Height(cp) - 10

\* The walk from h downward, through the first tipset not above stop.
WalkSet(h, stop) ==
  {a \in Ancestors(h) : \A x \in Ancestors(h) : Height(x) > Height(a) => Height(x) > stop}

\* C12: after a successful Load the TipIndex holds exactly the tipsets of the
\* walk from the persisted head through the first tipset at or below stop_at,
\* each with the roots persisted for it.
C12_LoadIndexesWalk ==
  LoadSucceeded =>
    \A t \in TipSets :
      /\ tipIndexHas(tipIndex, t) <=> t \in WalkSet(PersistedHead, StopAt)
      /\ tipIndexHas(tipIndex, t) =>
           /\ DecodeMetaOk(ds[MetaKey(t)])
           /\ tipIndex[t] = <<ds[MetaKey(t)][2], ds[MetaKey(t)][3]>>

\* The block store lacks a block of t, or the metadata of t is absent or is
\* not a tsState.
Unloadable(t) ==
  t \notin bs \/ ds[MetaKey(t)] = NoVal \/ ~DecodeMetaOk(ds[MetaKey(t)])

\* C13: Load fails fast.  Past its first part the head key is present and
\* names a tipset at hand; it goes on to SetHead only when no tipset of the
\* walk is unloadable; when it fails at a tipset, that tipset is the first
\* unloadable one of the walk and nothing at or below it is indexed; and a
\* failing Load calls no SetHead, leaves the head and the head slot as they
\* were and enqueues and publishes nothing.
C13_LoadFailsFast ==
  /\ [](lpc \in {"checkpoint", "walk", "next", "index", "write", "sethead", "called"} =>
          (PersistedHead # Nil /\ PersistedHead \in bs))
  /\ [](lpc \in {"sethead", "called"} =>
          \A t \in WalkSet(PersistedHead, StopAt) : ~Unloadable(t))
  /\ []((lpc = "failed" /\ opRet.ts # Nil /\ Unloadable(opRet.ts)) =>
          /\ opRet.ts \in WalkSet(PersistedHead, StopAt)
          /\ \A t \in WalkSet(PersistedHead, StopAt) :
               Height(t) > Height(opRet.ts) => (~Unloadable(t) /\ tipIndexHas(tipIndex, t))
          /\ \A t \in TipSets :
               tipIndexHas(tipIndex, t) => Height(t) > Height(opRet.ts))
  /\ [](lpc = "failed" =>
          (opRet.res = "error" /\ calls = 0 /\ head = Nil /\ enqLog = <<>> /\ published = <<>>))
  /\ [][(lpc = "failed" \/ lpc' = "failed") =>
          /\ head' = head
          /\ ds'[HeadKey] = ds[HeadKey]
          /\ reorgCh' = reorgCh
          /\ cmdChan' = cmdChan
          /\ calls' = calls]_vars

\* ---- C20
\* C20: whenever no SetHead holds the head lock and the head is set, the head
\* slot decodes to the key of the head.
C20_HeadSlotIsHead ==
  (mu = NoOne /\ head # Nil) =>
    (ds[HeadKey] # NoVal /\ DecodeOk(ds[HeadKey]) /\ Decode(ds[HeadKey]) = Key(head))

\* Load has installed the persisted head F over a head another thread had set,
\* after a SetHead failed at the datastore write.
C20_Witness ==
  /\ LoadSucceeded
  /\ head = "F"
  /\ Len(commits) >= 2
  /\ commits[Len(commits)].ts = "F"
  /\ calls > Len(commits)
  /\ mu = NoOne

\* ---- C14
\* The ancestors-or-self of t at a height h, above h, below h.
AncestorsAt(t, h) == {a \in Ancestors(t) : Height(a) = h}
LowestAbove(t, h) ==
  CHOOSE a \in Ancestors(t) : Height(a) > h /\ \A x \in Ancestors(t) : Height(x) > h => Height(a) <= Height(x)
HighestBelow(t, h) ==
  CHOOSE a \in Ancestors(t) : Height(a) < h /\ \A x \in Ancestors(t) : Height(x) < h => Height(a) >= Height(x)

\* C14: GetTipSetByHeight(from, h, prev), from being the head when not given,
\* fails when h is above from, returns from when h is its height, the ancestor
\* at h when there is one, and otherwise the lowest ancestor-or-self above h
\* (prev false) or that tipset's parent, the highest ancestor below h (prev true).
C14_ByHeightIsLinearWalk ==
  (opRet.op = "byheight" /\ opRet.from # Nil) =>
    LET t == opRet.from
        h == opRet.h
    IN IF h > Height(t) THEN opRet.res = "error"
       ELSE IF h = Height(t) THEN opRet.res = "nil" /\ opRet.ts = t
       ELSE IF AncestorsAt(t, h) # {} THEN opRet.res = "nil" /\ opRet.ts \in AncestorsAt(t, h)
       ELSE IF ~opRet.prev THEN opRet.res = "nil" /\ opRet.ts = LowestAbove(t, h)
       ELSE /\ opRet.res = "nil"
            /\ opRet.ts = Parents(LowestAbove(t, h))
            /\ opRet.ts = HighestBelow(t, h)

\* Asked from the head F for height 9, in the null rounds between D and E:
\* with prev the answer is D.
C14_Witness ==
  /\ opRet.op = "byheight"
  /\ head = "F" /\ opRet.from = "F"
  /\ opRet.h = 9 /\ opRet.prev
  /\ opRet.res = "nil" /\ opRet.ts = "D"


\* The common ancestors of two tipsets, the one of maximal height, and the
\* tipsets of t's chain strictly above c.
CommonAncestors(a, b) == Ancestors(a) \cap Ancestors(b)
MaxCommonAncestor(a, b) ==
  CHOOSE c \in CommonAncestors(a, b) : \A x \in CommonAncestors(a, b) : Height(x) <= Height(c)
Above(t, c) == {x \in Ancestors(t) : Height(x) > Height(c)}
\* s lists exactly the tipsets of t's chain strictly above c, in walk order.
IsChainAbove(s, t, c) ==
  /\ Len(s) = Cardinality(Above(t, c))
  /\ {s[i] : i \in 1 .. Len(s)} = Above(t, c)
  /\ \A i \in 1 .. Len(s) : Parents(s[i]) = IF i = Len(s) THEN c ELSE s[i + 1]
  /\ c \notin {s[i] : i \in 1 .. Len(s)}

\* C15: when SetHead(b) is called on a head a that has a common ancestor with
\* b (and is not b), the reorg computation does not fail, and the lists it
\* returns are exactly the tipsets of a's chain and of b's chain strictly above
\* their common ancestor of maximal height, which is in neither list.
C15_ReorgToCommonAncestor ==
  /\ [](\A p \in Callers :
         (pc[p] = "write" /\ head # Nil) =>
           LET c == MaxCommonAncestor(head, arg[p])
           IN /\ CommonAncestors(head, arg[p]) # {}
              /\ IsChainAbove(dropped[p], head, c)
              /\ IsChainAbove(added[p], arg[p], c))
  /\ [][(calls' = calls + 1 /\ head # Nil /\ Key(head) # Key(EnteredTs)
           /\ CommonAncestors(head, EnteredTs) # {})
          => pc' # pc]_vars

\* SetHead(F) on the head C: the common ancestor is A, C and B are dropped,
\* F, E, D and B2 added.
C15_Witness ==
  /\ pc["c1"] = "write"
  /\ head = "C" /\ arg["c1"] = "F"
  /\ dropped["c1"] = <<"C", "B">>
  /\ added["c1"] = <<"F", "E", "D", "B2">>

\* The child of t on the chain of root, and the tipsets Import visits from
\* parentTipset: parentTipset and its ancestors above height 0.
ChildOn(root, t) == CHOOSE c \in Ancestors(root) : Parents(c) = t
ImportVisited(pt) == {pt} \cup {t \in Ancestors(pt) : Height(t) > 0}
ImportedRoot == CHOOSE t \in TipSets : Key(t) = opRet'.root

\* The Import call of the goroutine m returns in this step.
ImportReturns(m) ==
  /\ opRet'.op = "import"
  /\ mpc'[m] = "idle"
  /\ \/ mpc[m] \in {"index", "iwrite"}
     \/ mpc[m] = "idle" /\ ops' = ops + 1

\* C19: an Import of an archive that carries the chain of its root down to
\* genesis, the root having parents and no datastore write failing, returns
\* parentTipset; it persists for parentTipset and for each of its ancestors
\* above height 0 the parent state root and parent receipts recorded in its
\* child, writes nothing else, and leaves the head and the head slot alone.
C19_ImportPersistsParents ==
  [][\A m \in MetaThreads :
       (/\ ImportReturns(m)
        /\ opRet'.fail = "none"
        /\ \E t \in TipSets : Key(t) = opRet'.root
        /\ Parents(ImportedRoot) # Nil
        /\ Ancestors(ImportedRoot) \subseteq bs')
         => LET root == ImportedRoot
                pt == Parents(root)
                ds0 == CallStart(m).ds
            IN /\ opRet'.res = "nil"
               /\ opRet'.ts = pt
               /\ \A t \in ImportVisited(pt) :
                    ds'[MetaKey(t)] = EncodeMeta(ParentStateRoot(ChildOn(root, t)),
                                                ParentMessageReceipts(ChildOn(root, t)))
               /\ \A t \in TipSets \ ImportVisited(pt) : ds'[MetaKey(t)] = ds0[MetaKey(t)]
               /\ head' = head
               /\ ds'[HeadKey] = ds0[HeadKey]]_vars

\* A step of the operation o.
OpStep(o) == ops' = ops + 1 /\ opRet'.op = o

\* C16 as stated: the checkpoint slot and the checkpoint held by the store
\* change in no step but a WriteCheckPoint.
C16_OnlyWriteCheckPoint ==
  [][(ds'[CheckPoint] # ds[CheckPoint] \/ checkPoint' # checkPoint)
       => OpStep("writecheckpoint")]_vars

\* C16, amended: the checkpoint changes only in the caller's two checkpoint
\* operations: the checkpoint slot in no step but a WriteCheckPoint, the
\* checkpoint held by the store in no step but a SetCheckPoint or a
\* WriteCheckPoint; SetHead, Load, Import, PutTipSetMetadata,
\* DelTipSetMetadata, SubHeadChanges and Stop change neither.
C16_CheckPointFrame ==
  [][/\ ds'[CheckPoint] # ds[CheckPoint] => OpStep("writecheckpoint")
     /\ checkPoint' # checkPoint
          => (OpStep("setcheckpoint") \/ OpStep("writecheckpoint"))]_vars

\* E was written to the slot and C then set in the store, around a SetHead:
\* the slot and the held checkpoint differ.
C16_Witness ==
  /\ opRet.op = "setcheckpoint"
  /\ head = "D"
  /\ ds[CheckPoint] = Encode(Key("E"))
  /\ GetCheckPoint = Key("C")

\* A SetHead call is blocked sending on the full reorg channel.
BlockedSender == \E p \in Callers : pc[p] = "send" /\ Len(reorgCh) = ReorgChCap

\* C18: a SetHead call holds the head lock exactly from the equality test to
\* the head commit and not while it sends on the reorg channel; so while a
\* call is blocked on the full reorg channel the lock is free for
\* SubHeadChanges to take, or held by another call that can go on to release it.
C18_LockFreeWhileSending ==
  /\ \A p \in Callers : (mu = p) <=> (pc[p] \in {"write", "commit"})
  /\ \A p \in Callers : pc[p] = "send" => mu # p
  /\ (BlockedSender /\ mu = NoOne) =>
       \A s \in Subs : fpc[s] = "none" => ENABLED SubHeadChangesSnapshot(s)
  /\ (BlockedSender /\ mu # NoOne) => ENABLED (SetHeadWrite(mu) \/ SetHeadCommit(mu))

\* While one call is blocked sending on the full reorg channel, another has
\* taken the lock and is about to commit, and a subscriber took its snapshot
\* after the blocked call's commit.
C18_Witness ==
  \E p \in Callers, q \in Callers :
    /\ p # q
    /\ pc[p] = "send" /\ Len(reorgCh) = ReorgChCap
    /\ pc[q] = "commit" /\ mu = q
    /\ \E s \in Subs : fpc[s] # "none" /\ snapSeq[s] = cseq[p]

\* C17 as stated: once Stop has been called, the channel of every subscriber
\* that subscribed before it is eventually closed, whether or not its context
\* was cancelled.
C17_ClosedAfterStop ==
  \A s \in Subs : (stopped /\ fpc[s] # "none") ~> outClosed[s]

\* C17, amended: once Stop has been called, the channel of every subscriber
\* that subscribed before it is eventually closed, provided the subscriber
\* reads its channel, so that it does not stay full for ever, or its context
\* is cancelled at some time, before Stop or after it.
C17_ClosedWhenReadOrCancelled ==
  \A s \in Subs :
    ([]<>(Len(out[s]) < OutCap) \/ <>ctxDone[s])
      => ((stopped /\ fpc[s] # "none") ~> outClosed[s])

\* Stop was called on a subscriber with a live context through whose channel
\* more batches went than it holds, so the forwarding goroutine relied on
\* the reader; the channel is closed and the forwarding goroutine gone.
C17_Witness ==
  \E s \in Subs :
    /\ stopped
    /\ ~ctxDone[s]
    /\ Len(sent[s]) > OutCap
    /\ fpc[s] = "exit" /\ outClosed[s]
    /\ psState = "closed"

\* The apply entries and the revert entries of a batch, in their order.
Applies(b) == SelectSeq(b.notif, LAMBDA e : e.Type = HCApply)
Reverts(b) == SelectSeq(b.notif, LAMBDA e : e.Type = HCRevert)

\* C21: every batch published for a SetHead(newTs) that changed the head names
\* the new head: its last apply entry, when it has one, is newTs; it has none
\* only when newTs is an ancestor of the old head, and then it holds reverts
\* only; when no head was set it is exactly [{apply, newTs}].
C21_BatchNamesNewHead ==
  \A b \in PublishedBatches :
    /\ b.seq \in 1 .. Len(commits)
    /\ LET new == NewHeadOf(b.seq)
           old == OldHeadOf(b.seq)
           ap == Applies(b)
           rv == Reverts(b)
       IN /\ ap # <<>> => ap[Len(ap)].Val = new
          /\ ap = <<>> => /\ old # Nil
                          /\ new \in Ancestors(old)
                          /\ rv = b.notif
                          /\ rv # <<>>
          /\ old = Nil => b.notif = <<[Type |-> HCApply, Val |-> new]>>

\* A subscriber was sent the batch of SetHead(A) on the head C, a rewind: two
\* reverts and no apply; and the batch of a reorg with two applies ending in D.
C21_Witness ==
  \E s \in Subs :
    /\ \E b \in Range(sent[s]) :
         /\ b.seq >= 1
         /\ OldHeadOf(b.seq) = "C" /\ NewHeadOf(b.seq) = "A"
         /\ Applies(b) = <<>> /\ Len(Reverts(b)) = 2
    /\ \E b \in Range(sent[s]) :
         /\ b.seq >= 1
         /\ Len(Applies(b)) >= 2
         /\ Applies(b)[Len(Applies(b))].Val = NewHeadOf(b.seq)

\* C22: a tipset is in the TipIndex exactly when its metadata entry is in the
\* datastore, and a PutTipSetMetadata or DelTipSetMetadata call that returns
\* an error leaves both the TipIndex and the datastore as they were.
C22_IndexMatchesDatastore ==
  /\ [](NoCallUnderWay =>
          \A t \in TipSets : tipIndexHas(tipIndex, t) <=> (ds[MetaKey(t)] # NoVal))
  /\ [][\A m \in MetaThreads :
          (mpc[m] \in {"write", "delete"} /\ mpc'[m] = "idle" /\ opRet'.res = "error")
            => (tipIndex' = CallStart(m).ti /\ ds' = CallStart(m).ds)]_vars

\* The checkpoint persisted under /chain/checkPoint, {genesis} when the slot
\* is absent, and the loopBack Load computes from a checkpoint key.
PersistedCheckPoint == NewCheckPoint(ds)
LoopBackOf(k) == IF k = <<>> THEN 0 ELSE Height(TipSetOfKey(k, bs)) - LoadBack

\* C23: the checkpoint held by the store always is the persisted one: after a
\* WriteCheckPoint(k) that returned nil GetCheckPoint returns k, and a Load
\* that gets to its traversal computed its stop height from the persisted
\* checkpoint.
C23_HeldIsPersisted ==
  /\ [](GetCheckPoint = PersistedCheckPoint)
  /\ [][(OpStep("writecheckpoint") /\ opRet'.res = "nil")
          => (DecodeOk(ds'[CheckPoint]) /\ GetCheckPoint' = Decode(ds'[CheckPoint]))]_vars
  /\ [][(lpc \in {"blocks", "checkpoint"} /\ lpc' = "walk")
          => lback' = LoopBackOf(PersistedCheckPoint)]_vars
====
